---- MODULE Spec2Model ----
(***************************************************************************)
(* State-machine model of the SMS outreach dashboard's scheduling core:    *)
(* the one-off / recurring bulk scheduler (src/scheduler.py) and the drip  *)
(* campaign engine (src/campaign_service.py, src/scheduler.py).            *)
(*                                                                         *)
(* Time is counted in whole hours of UTC since an epoch that is a Monday,  *)
(* 1 January, 00:00 UTC of a non-leap year.  Every handler is one action.  *)
(* Strings whose characters matter (phone numbers, inbound texts) are      *)
(* sequences of one-character strings.                                     *)
(***************************************************************************)
EXTENDS Integers, Sequences, FiniteSets, TLC

VARIABLES
    now,        \* the clock: datetime.utcnow(), in hours since the epoch
    bulk,       \* table scheduled_bulk_messages: sequence of rows, id = index
    bulkRuns,   \* history: one record per execution of a due row, with the
                \* number of Message Sender calls it made
    campaigns,  \* table campaigns: function id -> row
    messages,   \* table campaign_messages: sequence of rows, id = index
    enrolls,    \* table campaign_enrollments: sequence of rows, id = index
    sends,      \* table campaign_sends: sequence of rows in creation order
    abTests,    \* table campaign_ab_tests: sequence of rows
    poll,       \* the bulk poll in flight: the row it executes and how far it got
    inflight,   \* the other calls and passes in flight: what each has read and
                \* the writes it has not committed yet
    lastOp      \* history: the handler that ran last and whether it succeeded

vars == <<now, bulk, bulkRuns, poll, inflight, campaigns, messages, enrolls, sends,
          abTests, lastOp>>
bulkVars == <<bulk, bulkRuns, poll, inflight>>
campVars == <<campaigns, messages, enrolls, sends, abTests>>

-----------------------------------------------------------------------------
(* Bounds of the model *)

\* US Eastern is this many hours behind UTC (standard time)
EasternOffset == 5
\* the clock starts at 11:00 US Eastern of day 0
StartTime == 11 + EasternOffset
\* the clock advances in steps of this many hours
ClockStep == 24
\* the bulk scheduler's clock stops advancing once it reaches this hour
MaxTime == 64
\* the campaign engine's clock is followed up to this hour
LastEvening == 48
\* rows of scheduled_bulk_messages the model follows
MaxBulk == 1
\* rows of campaign_messages the model follows
MaxMessages == 2
\* inbound replies counted per enrollment
MaxResponses == 1
\* calls and passes followed while they are in flight at the same time
MaxCalls == 2
\* days the recurrence search looks ahead of the later of anchor and now
Horizon == 62

-----------------------------------------------------------------------------
(* Helpers *)

\* Python's None in a numeric column
None == 0 - 1

Range(s) == {s[i] : i \in 1..Len(s)}

ListOf(n, x) == [i \in 1..n |-> x]

\* the first n elements of s: Python's s[:n]
Prefix(s, n) == IF Len(s) <= n THEN s ELSE SubSeq(s, 1, n)

\* t contains p as a contiguous substring: Python's `p in t`
Contains(t, p) ==
    \E i \in 0..(Len(t) - Len(p)) : \A j \in 1..Len(p) : t[i + j] = p[j]

\* timedelta.days of (a - b) for a >= b
WholeDays(a, b) == (a - b) \div 24

-----------------------------------------------------------------------------
(* Phone numbers: leads_service.normalize_phone *)

DigitChars == {"0", "1", "2", "3", "4", "5", "6", "7", "8", "9"}

IsDigit(c) == c \in DigitChars

DigitsOf(s) == SelectSeq(s, IsDigit)

\* A normalisation that keeps the spelling it is given
keep_phone(raw) == raw

\* raw is a character sequence; <<>> stands for None or the empty string.
\* The result None is modelled as <<>>.
normalize_phone(raw) ==
    IF raw = <<>> THEN <<>>
    ELSE LET digits == DigitsOf(raw) IN
         IF Len(digits) = 10 THEN <<"+", "1">> \o digits
         ELSE IF Len(digits) = 11 THEN <<"+">> \o digits
         ELSE <<>>

\* Raw spellings used as inputs
RawA10    == <<"5","5","5","1","2","3","0","0","0","1">>
RawADash  == <<"5","5","5","-","1","2","3","-","0","0","0","1">>
RawA11    == <<"1","5","5","5","1","2","3","0","0","0","1">>
RawAPlus  == <<"+","1","5","5","5","1","2","3","0","0","0","1">>
RawB10    == <<"5","5","5","1","2","3","0","0","0","2">>
RawShort  == <<"5","5","5","1","2","3","0","0","0">>

-----------------------------------------------------------------------------
(* The calendar: the epoch is Monday 1 January 00:00 UTC, non-leap year *)

\* datetime.weekday(): 0 = Monday
Weekday(t) == (t \div 24) % 7

MonthLengths == <<31, 28, 31, 30, 31, 30, 31, 31, 30, 31, 30, 31>>

RECURSIVE DayOfMonthFrom(_, _)
DayOfMonthFrom(d, m) ==
    IF m > Len(MonthLengths) THEN d + 1
    ELSE IF d < MonthLengths[m] THEN d + 1
    ELSE DayOfMonthFrom(d - MonthLengths[m], m + 1)

\* datetime.day of the hour t
DayOfMonth(t) == DayOfMonthFrom(t \div 24, 1)

-----------------------------------------------------------------------------
(* One-off / recurring bulk scheduler: src/scheduler.py *)

MAX_RECIPIENTS_PER_SCHEDULE == 50

\* DAY_MAP: day name -> weekday number
DAY_MAP == [d \in {"mon", "tue", "wed", "thu", "fri", "sat", "sun"} |->
              CASE d = "mon" -> 0 [] d = "tue" -> 1 [] d = "wed" -> 2
                [] d = "thu" -> 3 [] d = "fri" -> 4 [] d = "sat" -> 5
                [] OTHER -> 6]

\* d.strip().lower() on the day tokens the inputs use
StripLower(tok) ==
    CASE tok = " Wed" -> "wed"
      [] tok = "MON"  -> "mon"
      [] OTHER        -> tok

\* A recipient entry: a string (its characters) or a value that is no string
StrPhone(chars) == [isStr |-> TRUE, chars |-> chars]
NonStrPhone == [isStr |-> FALSE, chars |-> <<>>]

PhoneA == StrPhone(RawA10)
PhoneB == StrPhone(RawB10)

\* A weaker recipient test that accepts any string, whatever its length
PhoneIsString(p) == p.isStr

\* the test of scheduler.py line 294 negated
PhoneLooksValid(p) == p.isStr /\ Len(p.chars) >= 10

\* json.dumps of a Python list of phones
JsonDumps(list) == [kind |-> "array", items |-> list]

\* A loader that takes the recipients from the contact directory instead of
\* the stored text
JsonLoadsDirectory(payload) ==
    [raises |-> "", value |-> <<StrPhone(RawA10), StrPhone(RawB10)>>]

\* json.loads(text) if text else []: what the stored text parses to.
\*   "invalid": not JSON at all         -> JSONDecodeError
\*   "empty":   NULL or ''              -> []
\*   "array":   a JSON array            -> the list
\*   "string":  a JSON string literal   -> a str, iterated character by character
\*   "number":  a non-zero JSON number  -> an int, on which len() raises TypeError
JsonLoads(payload) ==
    CASE payload.kind = "invalid" -> [raises |-> "JSONDecodeError", value |-> <<>>]
      [] payload.kind = "empty"   -> [raises |-> "", value |-> <<>>]
      [] payload.kind = "array"   -> [raises |-> "", value |-> payload.items]
      [] payload.kind = "string"  ->
            [raises |-> "",
             value |-> [i \in 1..Len(payload.items) |-> StrPhone(<<payload.items[i]>>)]]
      [] OTHER                    -> [raises |-> "TypeError", value |-> <<>>]

\* '{' in body and '}' in body
HasVariables(body) == "{" \in Range(body) /\ "}" \in Range(body)

PlainBody == <<"H", "i">>
TemplateBody == <<"H", "i", " ", "{", "n", "a", "m", "e", "}">>

\* The weekday numbers a stored recurrence_days string names (line 92):
\* tokens that are no day name are dropped
ParsedDays(tokens) ==
    {DAY_MAP[StripLower(tokens[i])] :
        i \in {j \in 1..Len(tokens) : StripLower(tokens[j]) \in DOMAIN DAY_MAP}}

\* The occurrences of the rrule built from the row, as a predicate on a time
\* that lies a whole number of days after the anchor
IsOccurrence(row, t) ==
    CASE row.recurrence_type = "daily"  -> TRUE
      [] row.recurrence_type = "weekly" ->
            LET days == ParsedDays(row.recurrence_days) IN
            IF days = {} THEN Weekday(t) = Weekday(row.scheduled_at)
            ELSE Weekday(t) \in days
      [] OTHER -> DayOfMonth(t) = DayOfMonth(row.scheduled_at)

\* A recurrence search that does not move past the occurrence just executed
RuleAfterInclusive(row, t) == row.scheduled_at

\* rule.after(now): the first occurrence strictly after t; None when the
\* search window holds none
RuleAfter(row, t) ==
    LET base == row.scheduled_at
        first == IF t < base THEN 0 ELSE ((t - base) \div 24)
        cands == {base + 24 * k : k \in first..(first + Horizon)}
        hits == {c \in cands : c > t /\ IsOccurrence(row, c)}
    IN IF hits = {} THEN None
       ELSE CHOOSE c \in hits : \A d \in hits : c <= d

\* A calculator that does not look at the end date
CalculateNextOccurrenceNoEnd(row, t) ==
    IF ~row.is_recurring \/ row.recurrence_type \notin {"daily", "weekly", "monthly"}
    THEN None
    ELSE LET base == row.scheduled_at
             first == IF t < base THEN 0 ELSE ((t - base) \div 24)
             hits == {c \in {base + 24 * k : k \in first..(first + Horizon)} :
                         c > t /\ IsOccurrence(row, c)}
         IN IF hits = {} THEN None ELSE CHOOSE c \in hits : \A d \in hits : c <= d

\* _calculate_next_occurrence(bulk_msg) at time t; None when there is none
CalculateNextOccurrence(row, t) ==
    IF ~row.is_recurring \/ row.recurrence_type = "" THEN None
    ELSE IF row.recurrence_end_date # None /\ t >= row.recurrence_end_date THEN None
    ELSE IF row.recurrence_type \notin {"daily", "weekly", "monthly"} THEN None
    ELSE LET next_time == RuleAfter(row, t) IN
         IF row.recurrence_end_date # None /\ next_time # None
              /\ next_time > row.recurrence_end_date
         THEN None
         ELSE next_time

\* What the provider answers during one poll: it accepts every message,
\* refuses every message, or refuses every second one
ProviderOutcomes == {"accepts", "refuses", "alternates"}

\* Whether send_sms fails for recipient number i of a batch
ProviderFails(outcome, i) ==
    \/ outcome = "refuses"
    \/ outcome = "alternates" /\ i % 2 = 0

\* The validation of schedule_bulk_message (lines 284-307): the error raised,
\* "" when the request is accepted
ScheduleError(req) ==
    IF Len(req.phone_numbers) = 0 THEN "phone_numbers is REQUIRED"
    ELSE IF Len(req.phone_numbers) > MAX_RECIPIENTS_PER_SCHEDULE
         THEN "Too many recipients"
    ELSE IF \E i \in 1..Len(req.phone_numbers) :
                ~PhoneLooksValid(req.phone_numbers[i])
         THEN "Invalid phone number"
    ELSE IF req.is_recurring
              /\ req.recurrence_type \notin {"daily", "weekly", "monthly"}
         THEN "Invalid recurrence_type"
    ELSE IF req.is_recurring /\ req.recurrence_type = "weekly"
              /\ req.recurrence_days # <<>>
              /\ \E i \in 1..Len(req.recurrence_days) :
                     StripLower(req.recurrence_days[i]) \notin DOMAIN DAY_MAP
         THEN "Invalid days"
    ELSE ""

\* The row schedule_bulk_message inserts (lines 311-322)
NewBulkRow(req) ==
    [status              |-> "pending",
     body                |-> req.body,
     recipient_phones    |-> JsonDumps(req.phone_numbers),
     scheduled_at        |-> req.scheduled_at,
     total_recipients    |-> Len(req.phone_numbers),
     sent_count          |-> 0,
     failed_count        |-> 0,
     is_recurring        |-> req.is_recurring,
     recurrence_type     |-> IF req.is_recurring THEN req.recurrence_type ELSE "",
     recurrence_days     |-> IF req.is_recurring /\ req.recurrence_type = "weekly"
                             THEN req.recurrence_days ELSE <<>>,
     recurrence_end_date |-> IF req.is_recurring THEN req.recurrence_end_date ELSE None,
     last_sent_at        |-> None,
     send_count          |-> 0]

\* Whether _execute_bulk_send passes its safety gates and reaches line 198
PassesSafetyGate(row) ==
    LET parsed == JsonLoads(row.recipient_phones) IN
    /\ parsed.raises # "JSONDecodeError"
    /\ parsed.raises = "" => /\ Len(parsed.value) > 0
                             /\ Len(parsed.value) <= MAX_RECIPIENTS_PER_SCHEDULE

\* The phones _execute_bulk_send passes to the Message Sender, in order
\* (lines 219-234).  A body with template variables never reaches the loop:
\* line 215 imports normalize_phone from twilio_service, which does not
\* define it, and the ImportError is caught at line 258.
BulkCalls(row) ==
    LET parsed == JsonLoads(row.recipient_phones) IN
    IF row.status # "pending" \/ ~PassesSafetyGate(row) \/ parsed.raises # ""
         \/ HasVariables(row.body)
    THEN <<>>
    ELSE parsed.value

\* The row after _execute_bulk_send at time t, provider failures given by fails
ExecuteBulkSend(row, fails, t) ==
    LET parsed == JsonLoads(row.recipient_phones)
        n == Len(parsed.value)
    IN
    IF row.status # "pending" THEN row
    ELSE IF ~PassesSafetyGate(row) THEN [row EXCEPT !.status = "failed"]
    ELSE IF parsed.raises # "" THEN [row EXCEPT !.status = "failed"]
    ELSE IF HasVariables(row.body)
         THEN [row EXCEPT !.status = "failed", !.total_recipients = n,
                          !.sent_count = 0, !.failed_count = 0]
    ELSE LET sent == Cardinality({i \in 1..n : ~ProviderFails(fails, i)})
             ran == [row EXCEPT !.total_recipients = n, !.sent_count = sent,
                                !.failed_count = n - sent]
             next_occurrence == CalculateNextOccurrence(ran, t)
         IN
         IF ~row.is_recurring THEN [ran EXCEPT !.status = "completed"]
         ELSE IF next_occurrence # None
              THEN [ran EXCEPT !.scheduled_at = next_occurrence,
                               !.status = "pending",
                               !.last_sent_at = t,
                               !.send_count = row.send_count + 1]
              ELSE [ran EXCEPT !.status = "completed",
                               !.last_sent_at = t,
                               !.send_count = row.send_count + 1]

-----------------------------------------------------------------------------
(* Inputs of the bulk scheduler *)

Request(phones, body, at, recurring, type, days, end) ==
    [phone_numbers |-> phones, body |-> body, scheduled_at |-> at,
     is_recurring |-> recurring, recurrence_type |-> type,
     recurrence_days |-> days, recurrence_end_date |-> end]

OneOff(phones, body, at) == Request(phones, body, at, FALSE, "", <<>>, None)

\* Requests that schedule_bulk_message is called with
BulkRequests ==
    {OneOff(<<>>, PlainBody, StartTime),
     OneOff(ListOf(MAX_RECIPIENTS_PER_SCHEDULE + 1, PhoneA), PlainBody, StartTime),
     OneOff(ListOf(MAX_RECIPIENTS_PER_SCHEDULE, PhoneA), PlainBody, StartTime + 24),
     OneOff(<<PhoneA, StrPhone(RawShort)>>, PlainBody, StartTime),
     OneOff(<<PhoneA, NonStrPhone>>, PlainBody, StartTime),
     OneOff(<<PhoneA, PhoneB, PhoneA>>, PlainBody, StartTime),
     OneOff(<<PhoneA>>, TemplateBody, StartTime),
     Request(<<PhoneA>>, PlainBody, StartTime, TRUE, "yearly", <<>>, None),
     Request(<<PhoneA>>, PlainBody, StartTime, TRUE, "", <<>>, None),
     Request(<<PhoneA>>, PlainBody, StartTime, TRUE, "weekly", <<"mon", "xyz">>, None),
     Request(<<PhoneA>>, PlainBody, StartTime, TRUE, "weekly", <<"mon", "">>, None),
     Request(<<PhoneA>>, PlainBody, StartTime, TRUE, "weekly", <<"MON", " Wed">>,
             StartTime + 48),
     Request(<<PhoneA, PhoneB>>, PlainBody, StartTime, TRUE, "daily", <<>>, None),
     Request(<<PhoneA>>, PlainBody, StartTime, TRUE, "monthly", <<>>, None)}

\* Recipient payloads of rows that are in the store when the process starts
\* and were not written by schedule_bulk_message: the payloads the safety
\* gates of _execute_bulk_send (lines 175-196) exist for
StoredPayloads ==
    {[kind |-> "invalid", items |-> <<>>],
     [kind |-> "empty",   items |-> <<>>],
     [kind |-> "number",  items |-> <<>>],
     [kind |-> "string",  items |-> <<"5", "5">>],
     [kind |-> "array",   items |-> <<>>],
     [kind |-> "array",   items |-> ListOf(MAX_RECIPIENTS_PER_SCHEDULE + 1, PhoneA)]}

StoredRow(payload) ==
    [NewBulkRow(OneOff(<<PhoneA>>, PlainBody, StartTime))
        EXCEPT !.recipient_phones = payload]

-----------------------------------------------------------------------------
(* Actions of the bulk scheduler *)

\* schedule_bulk_message (lines 266-332) called with req
schedule_bulk_message(req) ==
    LET err == ScheduleError(req) IN
    /\ err = "" => Len(bulk) < MaxBulk
    /\ bulk' = IF err = "" THEN Append(bulk, NewBulkRow(req)) ELSE bulk
    /\ lastOp' = [op |-> "schedule_bulk_message", ok |-> (err = "")]
    /\ UNCHANGED <<now, bulkRuns, poll, inflight, campVars>>

ScheduleBulkMessage == \E req \in BulkRequests : schedule_bulk_message(req)

IsDue(row) == row.status = "pending" /\ row.scheduled_at <= now

\* the executions of one poll, rows i..Len(bulk), in order; calls is the
\* number of times the execution calls the Message Sender
RECURSIVE PollRuns(_)
PollRuns(i) ==
    IF i > Len(bulk) THEN <<>>
    ELSE IF ~IsDue(bulk[i]) THEN PollRuns(i + 1)
    ELSE <<[id |-> i, occurrence |-> bulk[i].scheduled_at,
            recurring |-> bulk[i].is_recurring,
            calls |-> Len(BulkCalls(bulk[i]))]>> \o PollRuns(i + 1)

\* _check_and_send_due_messages (lines 145-162): every due pending row is
\* executed by _execute_bulk_send (lines 164-264)
CheckAndSendDueMessages ==
    \E f \in ProviderOutcomes :
        /\ bulk' = [i \in 1..Len(bulk) |->
                       IF IsDue(bulk[i]) THEN ExecuteBulkSend(bulk[i], f, now)
                       ELSE bulk[i]]
        /\ bulkRuns' = bulkRuns \o PollRuns(1)
        /\ lastOp' = [op |-> "poll", ok |-> TRUE]
        /\ UNCHANGED <<now, poll, inflight, campVars>>

\* No poll is running
IdlePoll == [id |-> 0, queue |-> <<>>, phones |-> <<>>, next |-> 0, calls |-> <<>>]

\* the ids of rows i..Len(bulk) that are due, in order (due_messages, lines 150-153)
RECURSIVE DueIds(_)
DueIds(i) ==
    IF i > Len(bulk) THEN <<>>
    ELSE IF IsDue(bulk[i]) THEN <<i>> \o DueIds(i + 1)
    ELSE DueIds(i + 1)

\* _check_and_send_due_messages up to its loop (lines 145-155): the poll
\* loads the due rows.  The scheduler runs one poll at a time.
StartPoll ==
    /\ poll = IdlePoll
    /\ DueIds(1) # <<>>
    /\ poll' = [IdlePoll EXCEPT !.queue = DueIds(1)]
    /\ lastOp' = [op |-> "poll", ok |-> TRUE]
    /\ UNCHANGED <<now, bulk, bulkRuns, inflight, campVars>>

\* _execute_bulk_send up to its first commit (lines 164-199) for the next
\* row the poll loaded: the row is skipped when it is no longer pending,
\* marked failed by a safety gate (or by len() raising on a number), or
\* marked in_progress with total_recipients set
BeginBulkSend ==
    /\ poll.id = 0
    /\ poll.queue # <<>>
    /\ LET id == Head(poll.queue)
           row == bulk[id]
           parsed == JsonLoads(row.recipient_phones)
           starts == /\ row.status = "pending"
                     /\ PassesSafetyGate(row)
                     /\ parsed.raises = ""
       IN
       /\ bulk' = IF row.status # "pending" THEN bulk
                   ELSE IF ~starts THEN [bulk EXCEPT ![id].status = "failed"]
                   ELSE [bulk EXCEPT ![id].status = "in_progress",
                                     ![id].total_recipients = Len(parsed.value)]
       /\ poll' = IF starts
                   THEN [id |-> id, queue |-> Tail(poll.queue),
                         phones |-> parsed.value, next |-> 1, calls |-> <<>>]
                   ELSE [poll EXCEPT !.queue = Tail(poll.queue)]
       /\ lastOp' = [op |-> "begin_bulk_send", ok |-> starts]
    /\ UNCHANGED <<now, bulkRuns, inflight, campVars>>

\* _execute_bulk_send up to its status test (lines 166-172), for the next
\* row the poll loaded: the execution reads the row in a session of its
\* own and returns when the row is not pending
ReadBulkRow ==
    /\ poll.id = 0
    /\ poll.queue # <<>>
    /\ \A k \in 1..Len(inflight) : inflight[k].op # "execute_bulk_send"
    /\ LET id == Head(poll.queue)
           pending == bulk[id].status = "pending"
       IN
       /\ inflight' = IF pending
                       THEN Append(inflight, [op |-> "execute_bulk_send", id |-> id])
                       ELSE inflight
       /\ poll' = [poll EXCEPT !.queue = Tail(poll.queue)]
       /\ lastOp' = [op |-> "read_bulk_row", ok |-> pending]
    /\ UNCHANGED <<now, bulk, bulkRuns, campVars>>

\* _execute_bulk_send from the safety gates to its first commit (lines
\* 174-199), for the row it has read: the commit writes status failed, or
\* status in_progress and total_recipients, whatever the row's status has
\* become since it was read
MarkInProgress ==
    \E k \in 1..Len(inflight) :
        /\ inflight[k].op = "execute_bulk_send"
        /\ LET id == inflight[k].id
               row == bulk[id]
               parsed == JsonLoads(row.recipient_phones)
               starts == PassesSafetyGate(row) /\ parsed.raises = ""
           IN
           /\ bulk' = IF ~starts THEN [bulk EXCEPT ![id].status = "failed"]
                       ELSE [bulk EXCEPT ![id].status = "in_progress",
                                         ![id].total_recipients = Len(parsed.value)]
           /\ poll' = IF starts
                       THEN [id |-> id, queue |-> poll.queue,
                             phones |-> parsed.value, next |-> 1, calls |-> <<>>]
                       ELSE poll
           /\ lastOp' = [op |-> "begin_bulk_send", ok |-> starts]
        /\ inflight' = SubSeq(inflight, 1, k - 1) \o SubSeq(inflight, k + 1, Len(inflight))
        /\ UNCHANGED <<now, bulkRuns, campVars>>

\* One turn of the loop of _execute_bulk_send (lines 220-234): the next
\* recipient is passed to the Message Sender, counted as sent or failed,
\* and the row is committed.  The counters restart from 0 in each run
\* (lines 205-206).
SendToRecipient ==
    /\ poll.id # 0
    /\ ~HasVariables(bulk[poll.id].body)
    /\ poll.next <= Len(poll.phones)
    /\ \E success \in BOOLEAN :
         LET row == bulk[poll.id]
             sent == IF poll.next = 1 THEN 0 ELSE row.sent_count
             failed == IF poll.next = 1 THEN 0 ELSE row.failed_count
         IN
         /\ bulk' = [bulk EXCEPT
                       ![poll.id].sent_count = IF success THEN sent + 1 ELSE sent,
                       ![poll.id].failed_count = IF success THEN failed ELSE failed + 1]
         /\ poll' = [poll EXCEPT
                       !.next = @ + 1,
                       !.calls = Append(@, [phone |-> poll.phones[poll.next],
                                            success |-> success])]
         /\ lastOp' = [op |-> "send_sms", ok |-> success]
    /\ UNCHANGED <<now, bulkRuns, inflight, campVars>>

\* The row when its run ends at time t (lines 236-262).  A body with
\* template variables ends the run before the loop: the import of line 215
\* raises and the handler of line 257 marks the row failed.
FinishedRow(row, t) ==
    LET next_occurrence == CalculateNextOccurrence(row, t) IN
    IF HasVariables(row.body)
    THEN [row EXCEPT !.status = "failed", !.sent_count = 0, !.failed_count = 0]
    ELSE IF ~row.is_recurring THEN [row EXCEPT !.status = "completed"]
    ELSE IF next_occurrence # None
    THEN [row EXCEPT !.scheduled_at = next_occurrence, !.status = "pending",
                     !.last_sent_at = t, !.send_count = @ + 1]
    ELSE [row EXCEPT !.status = "completed", !.last_sent_at = t,
                     !.send_count = @ + 1]

\* The end of _execute_bulk_send (lines 236-264): its last commit
FinishBulkSend ==
    /\ poll.id # 0
    /\ HasVariables(bulk[poll.id].body) \/ poll.next > Len(poll.phones)
    /\ bulk' = [bulk EXCEPT ![poll.id] = FinishedRow(@, now)]
    /\ bulkRuns' = Append(bulkRuns,
                      [id |-> poll.id, occurrence |-> bulk[poll.id].scheduled_at,
                       recurring |-> bulk[poll.id].is_recurring,
                       calls |-> Len(poll.calls)])
    /\ poll' = [IdlePoll EXCEPT !.queue = poll.queue]
    /\ lastOp' = [op |-> "finish_bulk_send", ok |-> bulk'[poll.id].status # "failed"]
    /\ UNCHANGED <<now, inflight, campVars>>

\* A cancel test that lets a row of any status through
CanCancelAnyStatus(row) == TRUE

\* the status test of cancel_scheduled_message (line 339)
CanCancel(row) == row.status \in {"pending", "paused"}

\* cancel_scheduled_message (lines 334-347) called with id
cancel_scheduled_message(id) ==
    LET ok == id <= Len(bulk) /\ CanCancel(bulk[id]) IN
    /\ bulk' = IF ok THEN [bulk EXCEPT ![id].status = "cancelled"] ELSE bulk
    /\ lastOp' = [op |-> "cancel_scheduled_message", ok |-> ok]
    /\ UNCHANGED <<now, bulkRuns, poll, inflight, campVars>>

CancelScheduledMessage == \E id \in 1..MaxBulk : cancel_scheduled_message(id)

\* A pause test that also lets a running row through
CanPauseRunning(row) == row.status \in {"pending", "in_progress"}

\* the status test of pause_scheduled_message (line 354)
CanPause(row) == row.status = "pending"

\* pause_scheduled_message (lines 349-362) called with id
pause_scheduled_message(id) ==
    LET ok == id <= Len(bulk) /\ CanPause(bulk[id]) IN
    /\ bulk' = IF ok THEN [bulk EXCEPT ![id].status = "paused"] ELSE bulk
    /\ lastOp' = [op |-> "pause_scheduled_message", ok |-> ok]
    /\ UNCHANGED <<now, bulkRuns, poll, inflight, campVars>>

PauseScheduledMessage == \E id \in 1..MaxBulk : pause_scheduled_message(id)

\* The row after resume_scheduled_message on a paused row (lines 373-386)
ResumedRow(row, t) ==
    LET next_occurrence == CalculateNextOccurrence(row, t) IN
    IF row.is_recurring /\ next_occurrence = None
    THEN [row EXCEPT !.status = "completed"]
    ELSE IF row.is_recurring
    THEN [row EXCEPT !.status = "pending", !.scheduled_at = next_occurrence]
    ELSE [row EXCEPT !.status = "pending"]

\* resume_scheduled_message (lines 364-389) called with id
resume_scheduled_message(id) ==
    LET found == id <= Len(bulk) /\ bulk[id].status = "paused" IN
    /\ bulk' = IF found THEN [bulk EXCEPT ![id] = ResumedRow(bulk[id], now)]
                ELSE bulk
    /\ lastOp' = [op |-> "resume_scheduled_message",
                  ok |-> (found /\ bulk'[id].status = "pending")]
    /\ UNCHANGED <<now, bulkRuns, poll, inflight, campVars>>

ResumeScheduledMessage == \E id \in 1..MaxBulk : resume_scheduled_message(id)

\* Time passes
AdvanceClock ==
    /\ now < MaxTime
    /\ now' = now + ClockStep
    /\ lastOp' = [op |-> "clock", ok |-> TRUE]
    /\ UNCHANGED <<bulkVars, campVars>>

\* datetime.now(eastern).hour at UTC hour t
EasternHour(t) == (t + 24 - EasternOffset) % 24

\* The next 19:00 US Eastern after hour t
NextEvening(t) ==
    IF EasternHour(t) < 19 THEN t + (19 - EasternHour(t)) ELSE t + 24

\* Time passes for the campaign engine, which is observed at 11:00 Eastern
\* of day 0 and at 19:00 Eastern of every day
AdvanceToEvening ==
    /\ NextEvening(now) <= LastEvening
    /\ now' = NextEvening(now)
    /\ lastOp' = [op |-> "clock", ok |-> TRUE]
    /\ UNCHANGED <<bulkVars, campVars>>

-----------------------------------------------------------------------------
(* Campaign engine: src/campaign_service.py, src/scheduler.py *)

\* The campaigns the model follows; no handler reads another campaign's rows
CampaignIds == {1}

OPT_OUT_KEYWORDS ==
    {<<"s","t","o","p">>, <<"u","n","s","u","b","s","c","r","i","b","e">>,
     <<"c","a","n","c","e","l">>, <<"q","u","i","t">>, <<"e","n","d">>}

\* str.lower() on the characters the inbound texts use
LowerChar(c) ==
    CASE c = "S" -> "s" [] c = "T" -> "t" [] c = "O" -> "o" [] c = "P" -> "p"
      [] c = "W" -> "w" [] c = "Y" -> "y" [] OTHER -> c

Lower(text) == [i \in 1..Len(text) |-> LowerChar(text[i])]

\* record_response lines 571-574
IsOptOut(body) == \E k \in OPT_OUT_KEYWORDS : Contains(Lower(body), k)

\* _parse_send_time (lines 410-416) on the send-time strings the inputs use:
\* the hour; a string that does not parse gives the default 11
ParseSendTimeHour(time_str) ==
    CASE time_str = "11:00" -> 11
      [] time_str = "09:00" -> 9
      [] time_str = "15:00" -> 15
      [] OTHER -> 11

\* _is_send_time_due (lines 418-430), send times being whole hours
IsSendTimeDue(send_time, t) == EasternHour(t) >= ParseSendTimeHour(send_time)

\* datetime.utcnow().replace(hour=0, ...): line 579
TodayStart(t) == (t \div 24) * 24

NoCampaign ==
    [exists |-> FALSE, status |-> "", has_filter |-> FALSE, default_send_time |-> "",
     started_at |-> None, paused_at |-> None, completed_at |-> None,
     response_tracking_ends_at |-> None]

\* ids of the campaign's messages (lines 484-485)
CampaignMessageIds(c) == {m \in 1..Len(messages) : messages[m].campaign_id = c}

\* The row that stays in the model's table when a message is deleted: ids
\* are table positions and the database does not hand out an id twice
DeletedMessage ==
    [campaign_id |-> None, sequence_order |-> 0, message_body |-> "",
     followup_body |-> "", days_after_previous |-> 0, send_time |-> "",
     enable_followup |-> FALSE, followup_days |-> 0, has_ab_test |-> FALSE]

\* query(CampaignMessage).filter(id == m).first() finds a row
MessageExists(m) == m \in 1..Len(messages) /\ messages[m] # DeletedMessage

\* The results an ORDER BY sequence_order over the rows ids can give: rows
\* with equal sequence_order come in an order the database chooses
MessageOrders(ids) ==
    {o \in [1..Cardinality(ids) -> ids] :
        /\ \A i, j \in 1..Cardinality(ids) : i # j => o[i] # o[j]
        /\ \A i, j \in 1..Cardinality(ids) :
              i < j => messages[o[i]].sequence_order <= messages[o[j]].sequence_order}

CampaignEnrollmentIds(c) == {e \in 1..Len(enrolls) : enrolls[e].campaign_id = c}

\* the scheduled-type sends of (enrollment, message)
ScheduledSends(e, m) ==
    {i \in 1..Len(sends) : /\ sends[i].enrollment_id = e
                           /\ sends[i].campaign_message_id = m
                           /\ sends[i].message_type = "scheduled"}

FollowupSends(e, m) ==
    {i \in 1..Len(sends) : /\ sends[i].enrollment_id = e
                           /\ sends[i].campaign_message_id = m
                           /\ sends[i].message_type = "followup"}

-----------------------------------------------------------------------------
(* Campaign set-up: create_campaign, add_message, enroll_contacts *)

SendTimes == {"11:00"}

\* create_campaign (lines 35-59): a new campaign in draft status, with
\* stored filter criteria or without
CreateCampaignWith(filters) ==
    \E c \in CampaignIds, has_filter \in filters, send_time \in SendTimes :
        /\ ~campaigns[c].exists
        /\ campaigns' = [campaigns EXCEPT ![c] =
              [exists |-> TRUE, status |-> "draft", has_filter |-> has_filter,
               default_send_time |-> send_time, started_at |-> None,
               paused_at |-> None, completed_at |-> None,
               response_tracking_ends_at |-> None]]
        /\ lastOp' = [op |-> "create_campaign", ok |-> TRUE]
        /\ UNCHANGED <<now, bulkVars, messages, enrolls, sends, abTests>>

CreateCampaign == CreateCampaignWith(BOOLEAN)

CreateFilteredCampaign == CreateCampaignWith({TRUE})

\* func.max(sequence_order) ... or 0 (lines 167-169)
MaxSequenceOrder(c) ==
    IF CampaignMessageIds(c) = {} THEN 0
    ELSE LET m == CHOOSE x \in CampaignMessageIds(c) : \A y \in CampaignMessageIds(c) :
                       messages[x].sequence_order >= messages[y].sequence_order
         IN messages[m].sequence_order

\* add_message (lines 148-185) without an explicit position: the message
\* goes to the end of the sequence.  The campaigns follow one design: an
\* opener that has a follow-up, then steps without one; every step waits a
\* day after the previous one and a follow-up waits a day.  send_time is
\* the message's own send time, "" when the caller gives none.
AddMessageGiven(send_times, delays, every_followup) ==
    \E c \in CampaignIds, days \in delays, send_time \in send_times :
      \E followup \in {every_followup \/ MaxSequenceOrder(c) = 0} :
        LET found == campaigns[c].exists IN
        /\ found => Len(messages) < MaxMessages
        /\ messages' = IF found
                        THEN Append(messages,
                               [campaign_id |-> c,
                                sequence_order |-> MaxSequenceOrder(c) + 1,
                                message_body |-> "Hi",
                                followup_body |-> "Following up",
                                days_after_previous |-> days,
                                send_time |-> send_time,
                                enable_followup |-> followup,
                                followup_days |-> 1,
                                has_ab_test |-> FALSE])
                        ELSE messages
        /\ lastOp' = [op |-> "add_message", ok |-> found]
        /\ UNCHANGED <<now, bulkVars, campaigns, enrolls, sends, abTests>>

\* messages one day apart, a follow-up on the opener only
AddMessageWith(send_times) == AddMessageGiven(send_times, {1}, FALSE)

AddMessage == AddMessageWith({""})

\* messages two days apart, each with a follow-up after one day
AddSpacedMessage == AddMessageGiven({""}, {2}, TRUE)

\* messages with and without a send time of their own
AddTimedMessage == AddMessageWith({"", "15:00"})

\* ids of the A/B test rows of a message
MessageABTests(m) == {i \in 1..Len(abTests) : abTests[i].campaign_message_id = m}

\* setup_ab_test (lines 258-285): a missing message gives None; a message
\* that has a test keeps its row (only variant_b_body is rewritten); else a
\* new row is stored and the message is flagged
SetupABTest ==
    \E m \in 1..MaxMessages :
        LET found == MessageExists(m) IN
        /\ abTests' = IF found /\ MessageABTests(m) = {}
                       THEN Append(abTests,
                              [campaign_id |-> messages[m].campaign_id,
                               campaign_message_id |-> m,
                               variant_b_body |-> "Hi from B",
                               variant_a_sent |-> 0, variant_b_sent |-> 0,
                               variant_a_responses |-> 0, variant_b_responses |-> 0])
                       ELSE abTests
        /\ messages' = IF found /\ MessageABTests(m) = {}
                        THEN [messages EXCEPT ![m].has_ab_test = TRUE]
                        ELSE messages
        /\ lastOp' = [op |-> "setup_ab_test", ok |-> found]
        /\ UNCHANGED <<now, bulkVars, campaigns, enrolls, sends>>

\* The response rate of CampaignABTest.to_dict (lines 399-400) in tenths of
\* a percent: round(responses / sent * 100, 1), 0 when nothing was sent
ResponseRate(responses, sent) ==
    IF sent > 0 THEN (2000 * responses + sent) \div (2 * sent) ELSE 0

\* 'winner' of CampaignABTest.to_dict (line 412)
Winner(row) ==
    LET a_rate == ResponseRate(row.variant_a_responses, row.variant_a_sent)
        b_rate == ResponseRate(row.variant_b_responses, row.variant_b_sent)
    IN IF a_rate > b_rate THEN "A" ELSE IF b_rate > a_rate THEN "B" ELSE "tie"

\* remove_ab_test (lines 287-304): False when the message has no test; else
\* the message's flag is cleared and the row, with its counters, is deleted
RemoveABTest ==
    \E m \in 1..MaxMessages :
        LET found == MessageABTests(m) # {} IN
        /\ abTests' = IF found
                       THEN SelectSeq(abTests, LAMBDA row : row.campaign_message_id # m)
                       ELSE abTests
        /\ messages' = IF found /\ m \in 1..Len(messages)
                        THEN [messages EXCEPT ![m].has_ab_test = FALSE]
                        ELSE messages
        /\ lastOp' = [op |-> "remove_ab_test", ok |-> found]
        /\ UNCHANGED <<now, bulkVars, campaigns, enrolls, sends>>

-----------------------------------------------------------------------------
(* Editing the sequence: add_message at a position, update_message,
   reorder_messages, delete_message *)

\* add_message (lines 148-185) with an explicit sequence_order: the row is
\* stored at that position as given; no other row is moved
AddMessageAt ==
    \E c \in CampaignIds, sequence_order \in 1..MaxMessages :
        LET found == campaigns[c].exists IN
        /\ found => Len(messages) < MaxMessages
        /\ messages' = IF found
                        THEN Append(messages,
                               [campaign_id |-> c,
                                sequence_order |-> sequence_order,
                                message_body |-> "Hi",
                                followup_body |-> "Following up",
                                days_after_previous |-> 1,
                                send_time |-> "",
                                enable_followup |-> FALSE,
                                followup_days |-> 1,
                                has_ab_test |-> FALSE])
                        ELSE messages
        /\ lastOp' = [op |-> "add_message", ok |-> found]
        /\ UNCHANGED <<now, bulkVars, campaigns, enrolls, sends, abTests>>

\* The keyword arguments of update_message the model follows
MessageUpdates ==
    {[sequence_order |-> k] : k \in 1..(MaxMessages + 1)}
    \cup {[days_after_previous |-> 1, has_ab_test |-> TRUE]}

\* the row after the setattr loop of update_message (lines 194-201)
UpdatedMessage(row, kwargs) ==
    [f \in DOMAIN row |->
        IF f \in DOMAIN kwargs
           /\ f \in {"message_body", "days_after_previous", "send_time",
                     "enable_followup", "followup_days", "followup_body",
                     "sequence_order"}
        THEN kwargs[f] ELSE row[f]]

\* update_message (lines 187-206); None for a message that does not exist
UpdateMessage ==
    \E m \in 1..MaxMessages, kwargs \in MessageUpdates :
        /\ messages' = IF MessageExists(m)
                        THEN [messages EXCEPT ![m] = UpdatedMessage(@, kwargs)]
                        ELSE messages
        /\ lastOp' = [op |-> "update_message", ok |-> MessageExists(m), id |-> m]
        /\ UNCHANGED <<now, bulkVars, campaigns, enrolls, sends, abTests>>

\* The message_order lists of reorder_messages: message ids in any order,
\* possibly incomplete or with an id twice (the endpoint refuses only the
\* empty list, app.py line 1160)
MessageOrderLists ==
    UNION {[1..n -> 1..MaxMessages] : n \in 1..MaxMessages}

\* the table after the loop of reorder_messages (lines 244-250) from entry i on
RECURSIVE ReorderLoop(_, _, _, _)
ReorderLoop(c, message_order, i, table) ==
    IF i > Len(message_order) THEN table
    ELSE LET m == message_order[i] IN
         ReorderLoop(c, message_order, i + 1,
                     IF m \in 1..Len(table) /\ table[m].campaign_id = c
                     THEN [table EXCEPT ![m].sequence_order = i]
                     ELSE table)

\* reorder_messages (lines 241-252): always True
ReorderMessages ==
    \E c \in CampaignIds, message_order \in MessageOrderLists :
        /\ messages' = ReorderLoop(c, message_order, 1, messages)
        /\ lastOp' = [op |-> "reorder_messages", ok |-> TRUE]
        /\ UNCHANGED <<now, bulkVars, campaigns, enrolls, sends, abTests>>

\* A count of the message's Sends that leaves out the failed ones
MessageSendCountSentOnly(m) ==
    Cardinality({i \in 1..Len(sends) : /\ sends[i].campaign_message_id = m
                                       /\ sends[i].status = "sent"})

\* send_count of delete_message (lines 216-218)
MessageSendCount(m) ==
    Cardinality({i \in 1..Len(sends) : sends[i].campaign_message_id = m})

\* the table after lines 228-237 of delete_message: the row is gone and the
\* remaining rows of the campaign, in the order the query returns them
\* (order), are numbered from 1
RenumberedMessages(m, order) ==
    [x \in 1..Len(messages) |->
        IF x = m THEN DeletedMessage
        ELSE IF \E i \in DOMAIN order : order[i] = x
        THEN [messages[x] EXCEPT
                !.sequence_order = CHOOSE i \in DOMAIN order : order[i] = x]
        ELSE messages[x]]

\* delete_message (lines 208-239): False for a message that does not exist;
\* ValueError, and the transaction rolled back, for a message with Sends
DeleteMessage ==
    \E m \in 1..MaxMessages :
      \E order \in IF MessageExists(m)
                   THEN MessageOrders(CampaignMessageIds(messages[m].campaign_id) \ {m})
                   ELSE {<<>>} :
        LET error == IF MessageExists(m) /\ MessageSendCount(m) > 0
                     THEN "Cannot delete message that has already been sent"
                     ELSE ""
            deleted == MessageExists(m) /\ error = ""
        IN
        /\ abTests' = IF deleted
                       THEN SelectSeq(abTests, LAMBDA row : row.campaign_message_id # m)
                       ELSE abTests
        /\ messages' = IF deleted THEN RenumberedMessages(m, order) ELSE messages
        /\ lastOp' = [op |-> "delete_message", ok |-> deleted, id |-> m, error |-> error]
        /\ UNCHANGED <<now, bulkVars, campaigns, enrolls, sends>>

\* A contact dict; <<>> is a missing or empty field
Contact(phone, phone_number, phone_normalized, name) ==
    [phone |-> phone, phone_number |-> phone_number,
     phone_normalized |-> phone_normalized, name |-> name]

\* contact.get('phone') or contact.get('phone_number') or
\* contact.get('phone_normalized')  (line 400)
ContactPhone(contact) ==
    IF contact.phone # <<>> THEN contact.phone
    ELSE IF contact.phone_number # <<>> THEN contact.phone_number
    ELSE contact.phone_normalized

\* What get_all_contacts returns for the campaign's stored filter
DirectoryContacts ==
    <<Contact(RawADash, <<>>, normalize_phone(RawADash), "Ann")>>

\* The calls of enroll_contacts
EnrollRequests ==
    {[contacts |-> <<>>, use_filters |-> FALSE, exclude_phones |-> {},
      manual_contacts |-> <<>>],
     [contacts |-> <<Contact(RawA10, <<>>, <<>>, "Ann")>>, use_filters |-> FALSE,
      exclude_phones |-> {}, manual_contacts |-> <<>>],
     [contacts |-> <<Contact(RawA10, <<>>, <<>>, "Ann")>>, use_filters |-> FALSE,
      exclude_phones |-> {normalize_phone(RawA10)}, manual_contacts |-> <<>>],
     [contacts |-> <<>>, use_filters |-> TRUE, exclude_phones |-> {},
      manual_contacts |-> <<Contact(<<>>, RawAPlus, RawAPlus, "Bob")>>],
     [contacts |-> <<Contact(RawShort, <<>>, <<>>, "Sam"),
                     Contact(RawB10, <<>>, <<>>, "Bea"),
                     Contact(<<>>, <<>>, RawA11, "Al")>>,
      use_filters |-> FALSE, exclude_phones |-> {},
      manual_contacts |-> <<Contact(RawB10, RawB10, RawB10, "Bob")>>]}

\* all_contacts of enroll_contacts (lines 371-383)
AllContacts(c, req) ==
    (IF req.use_filters /\ campaigns[c].has_filter THEN DirectoryContacts
     ELSE req.contacts) \o req.manual_contacts

\* the enrollment row of line 417
NewEnrollment(c, phone, name, variant) ==
    [campaign_id |-> c, phone_number |-> phone, contact_name |-> name,
     ab_variant |-> variant, current_step |-> 0, status |-> "active",
     last_message_at |-> None, last_message_id |-> None,
     first_response_at |-> None, first_response_message_id |-> None,
     response_count |-> 0, opted_out_at |-> None, opted_out_keyword |-> <<>>]

\* has_ab_test of enroll_contacts (lines 391-394)
CampaignHasABTest(c) == \E m \in CampaignMessageIds(c) : messages[m].has_ab_test

\* the loop of enroll_contacts (lines 399-427) from contact i on: table is
\* the enrollment table with the rows added so far, excluded the phones
\* the loop skips (exclude_phones and enrolled_phones)
RECURSIVE EnrollLoop(_, _, _, _, _, _)
EnrollLoop(c, all, i, table, excluded, variants) ==
    IF i > Len(all) THEN table
    ELSE LET phone == normalize_phone(ContactPhone(all[i]))
             existing == \E e \in 1..Len(table) :
                            /\ table[e].campaign_id = c
                            /\ table[e].phone_number = phone
         IN
         IF phone = <<>> \/ phone \in excluded \/ existing
         THEN EnrollLoop(c, all, i + 1, table, excluded, variants)
         ELSE EnrollLoop(c, all, i + 1,
                         Append(table, NewEnrollment(c, phone, all[i].name,
                                   IF CampaignHasABTest(c) THEN variants[i] ELSE "")),
                         excluded \cup {phone}, variants)

\* the enrollment table after enroll_contacts(c, req)
EnrollContactsTable(c, req, variants) ==
    EnrollLoop(c, AllContacts(c, req), 1, enrolls, req.exclude_phones, variants)

\* enroll_contacts (lines 349-432); a missing campaign raises ValueError
EnrollContactsFrom(requests) ==
    \E c \in CampaignIds, req \in requests :
      \E variants \in IF CampaignHasABTest(c)
                       THEN [1..Len(AllContacts(c, req)) -> {"A", "B"}]
                       ELSE {[i \in 1..Len(AllContacts(c, req)) |-> ""]} :
        LET found == campaigns[c].exists IN
        /\ enrolls' = IF found THEN EnrollContactsTable(c, req, variants) ELSE enrolls
        /\ lastOp' = [op |-> "enroll_contacts", req |-> req, ok |-> found,
                      enrolled_count |-> Len(enrolls') - Len(enrolls)]
        /\ UNCHANGED <<now, bulkVars, campaigns, messages, sends, abTests>>

EnrollContacts == EnrollContactsFrom(EnrollRequests)

\* The sequence s without its k-th element
RemoveAt(s, k) == SubSeq(s, 1, k - 1) \o SubSeq(s, k + 1, Len(s))

\* enroll_contacts up to its commit (lines 362-427): the call reads the
\* campaign, runs its loop over the contacts, whose existence checks see
\* the committed enrollments and the rows the call itself has added, and
\* holds the new rows in its session.  Each call has a session of its own
\* (get_session, line 362).
BeginEnroll ==
    \E c \in CampaignIds, req \in EnrollRequests :
      \E variants \in IF CampaignHasABTest(c)
                       THEN [1..Len(AllContacts(c, req)) -> {"A", "B"}]
                       ELSE {[i \in 1..Len(AllContacts(c, req)) |-> ""]} :
        /\ campaigns[c].exists
        /\ Len(inflight) < MaxCalls
        /\ LET table == EnrollContactsTable(c, req, variants) IN
           inflight' = Append(inflight,
                          [op |-> "enroll_contacts", req |-> req,
                           rows |-> SubSeq(table, Len(enrolls) + 1, Len(table))])
        /\ lastOp' = [op |-> "begin_enroll", ok |-> TRUE]
        /\ UNCHANGED <<now, bulk, bulkRuns, poll, campVars>>

\* session.commit() of enroll_contacts (line 429): the rows the call holds
\* are inserted; the table has no unique constraint on (campaign_id,
\* phone_number) (database.py lines 451-454), so the insert cannot fail on
\* rows another call has committed since
CommitEnroll ==
    \E k \in 1..Len(inflight) :
        /\ inflight[k].op = "enroll_contacts"
        /\ enrolls' = enrolls \o inflight[k].rows
        /\ inflight' = RemoveAt(inflight, k)
        /\ lastOp' = [op |-> "enroll_contacts", req |-> inflight[k].req, ok |-> TRUE,
                      enrolled_count |-> Len(inflight[k].rows)]
        /\ UNCHANGED <<now, bulk, bulkRuns, poll, campaigns, messages, sends, abTests>>

\* enroll_contacts with the request that names contacts of both phones
EnrollTwoPhones == EnrollContactsFrom({r \in EnrollRequests : Len(r.contacts) = 3})

\* the calls that enroll the filter's contacts and a manual one
EnrollFiltered == EnrollContactsFrom({r \in EnrollRequests : r.use_filters})

-----------------------------------------------------------------------------
(* Campaign lifecycle: start, pause, resume, complete *)

\* A start check that looks at the status only
StartErrorStatusOnly(c) ==
    IF ~campaigns[c].exists THEN "Campaign not found"
    ELSE IF campaigns[c].status \notin {"draft", "paused"} THEN "Cannot start campaign"
    ELSE ""

\* The error start_campaign raises (lines 472-482), "" when it goes through
StartError(c) ==
    IF ~campaigns[c].exists THEN "Campaign not found"
    ELSE IF campaigns[c].status \notin {"draft", "paused"} THEN "Cannot start campaign"
    ELSE IF CampaignMessageIds(c) = {} THEN "Campaign has no messages"
    ELSE IF CampaignEnrollmentIds(c) = {} THEN "Campaign has no enrolled contacts"
    ELSE ""

\* start_campaign (lines 464-490)
StartCampaign ==
    \E c \in CampaignIds :
        LET err == StartError(c) IN
        /\ campaigns' = IF err = ""
                         THEN [campaigns EXCEPT ![c].status = "active",
                                                ![c].started_at = now,
                                                ![c].paused_at = None]
                         ELSE campaigns
        /\ lastOp' = [op |-> "start_campaign", ok |-> (err = "")]
        /\ UNCHANGED <<now, bulkVars, messages, enrolls, sends, abTests>>

\* The error pause_campaign raises (lines 497-501)
PauseError(c) ==
    IF ~campaigns[c].exists THEN "Campaign not found"
    ELSE IF campaigns[c].status # "active" THEN "Can only pause active campaigns"
    ELSE ""

\* pause_campaign (lines 492-508)
PauseCampaign ==
    \E c \in CampaignIds :
        LET err == PauseError(c) IN
        /\ campaigns' = IF err = ""
                         THEN [campaigns EXCEPT ![c].status = "paused",
                                                ![c].paused_at = now]
                         ELSE campaigns
        /\ lastOp' = [op |-> "pause_campaign", ok |-> (err = "")]
        /\ UNCHANGED <<now, bulkVars, messages, enrolls, sends, abTests>>

\* The error resume_campaign raises (lines 515-519)
ResumeError(c) ==
    IF ~campaigns[c].exists THEN "Campaign not found"
    ELSE IF campaigns[c].status # "paused" THEN "Can only resume paused campaigns"
    ELSE ""

\* resume_campaign (lines 510-526)
ResumeCampaign ==
    \E c \in CampaignIds :
        LET err == ResumeError(c) IN
        /\ campaigns' = IF err = ""
                         THEN [campaigns EXCEPT ![c].status = "active",
                                                ![c].paused_at = None]
                         ELSE campaigns
        /\ lastOp' = [op |-> "resume_campaign", ok |-> (err = "")]
        /\ UNCHANGED <<now, bulkVars, messages, enrolls, sends, abTests>>

\* The response-tracking window: timedelta(days=30), in hours
TrackingWindow == 30 * 24

\* The error complete_campaign raises (lines 533-534): it tests nothing but
\* the campaign's existence
CompleteError(c) ==
    IF ~campaigns[c].exists THEN "Campaign not found" ELSE ""

\* complete_campaign (lines 528-552)
CompleteCampaign ==
    \E c \in CampaignIds :
        LET err == CompleteError(c) IN
        /\ campaigns' = IF err = ""
                         THEN [campaigns EXCEPT
                                 ![c].status = "completed",
                                 ![c].completed_at = now,
                                 ![c].response_tracking_ends_at = now + TrackingWindow]
                         ELSE campaigns
        /\ enrolls' = IF err = ""
                       THEN [e \in 1..Len(enrolls) |->
                               IF enrolls[e].campaign_id = c /\ enrolls[e].status = "active"
                               THEN [enrolls[e] EXCEPT !.status = "completed"]
                               ELSE enrolls[e]]
                       ELSE enrolls
        /\ lastOp' = [op |-> "complete_campaign", ok |-> (err = "")]
        /\ UNCHANGED <<now, bulkVars, messages, sends, abTests>>

-----------------------------------------------------------------------------
(* Campaign administration: update_campaign, delete_campaign *)

\* The keyword arguments of the update_campaign calls: the PUT endpoint
\* (app.py lines 1060-1071) passes the request's JSON object as it came
UpdateRequests ==
    {[default_send_time |-> "09:00"],
     [status |-> "active", name |-> "Spring"],
     [status |-> "draft"]}

\* An update that writes every field of the request
UpdatedFieldsAny(kwargs) == DOMAIN kwargs

\* allowed_fields of update_campaign (line 111) that the request names
UpdatedFields(kwargs) ==
    DOMAIN kwargs \cap {"name", "description", "enrollment_type",
                         "filter_criteria", "default_send_time"}

\* the campaign row after the setattr loop (lines 113-118)
UpdatedCampaign(row, kwargs) ==
    LET fields == UpdatedFields(kwargs) IN
    [row EXCEPT
       !.status = IF "status" \in fields THEN kwargs.status ELSE @,
       !.has_filter = IF "filter_criteria" \in fields
                      THEN kwargs.filter_criteria ELSE @,
       !.default_send_time = IF "default_send_time" \in fields
                             THEN kwargs.default_send_time ELSE @]

\* update_campaign (lines 103-123); a missing campaign gives None
UpdateCampaign ==
    \E c \in CampaignIds, kwargs \in UpdateRequests :
        LET found == campaigns[c].exists IN
        /\ campaigns' = IF found
                         THEN [campaigns EXCEPT ![c] = UpdatedCampaign(@, kwargs)]
                         ELSE campaigns
        /\ lastOp' = [op |-> "update_campaign", ok |-> found, req |-> kwargs]
        /\ UNCHANGED <<now, bulkVars, messages, enrolls, sends, abTests>>

\* A deletion that tests nothing but the campaign's existence
DeleteErrorExistsOnly(c) ==
    IF ~campaigns[c].exists THEN "not found" ELSE ""

\* How delete_campaign refuses (lines 128-133): "not found" is the False it
\* returns for a missing campaign, the other text the ValueError it raises
DeleteError(c) ==
    IF ~campaigns[c].exists THEN "not found"
    ELSE IF campaigns[c].status # "draft"
    THEN "Can only delete campaigns in draft status"
    ELSE ""

\* A table after query.filter(campaign_id == c).delete()  (lines 136-139)
WithoutCampaign(table, c) == SelectSeq(table, LAMBDA row : row.campaign_id # c)

\* delete_campaign (lines 125-142).  Rows are numbered by their place in
\* their table; the rows that go are those of the one campaign the model
\* follows, so no reference to a remaining row moves.
DeleteCampaign ==
    \E c \in CampaignIds :
        LET err == DeleteError(c) IN
        /\ sends' = IF err = "" THEN WithoutCampaign(sends, c) ELSE sends
        /\ enrolls' = IF err = "" THEN WithoutCampaign(enrolls, c) ELSE enrolls
        /\ abTests' = IF err = "" THEN WithoutCampaign(abTests, c) ELSE abTests
        /\ messages' = IF err = "" THEN WithoutCampaign(messages, c) ELSE messages
        /\ campaigns' = IF err = "" THEN [campaigns EXCEPT ![c] = NoCampaign]
                         ELSE campaigns
        /\ lastOp' = [op |-> "delete_campaign", ok |-> (err = ""),
                      removed |-> (Len(messages) - Len(messages'))
                                   + (Len(enrolls) - Len(enrolls'))
                                   + (Len(abTests) - Len(abTests'))]
        /\ UNCHANGED <<now, bulkVars>>

-----------------------------------------------------------------------------
(* The campaign tick: _check_and_send_campaign_messages *)

\* A pass that loads the campaign's enrollments whatever their status
TickEnrollmentIdsAnyStatus(c) == CampaignEnrollmentIds(c)

\* the enrollments a campaign pass loads (lines 499-502)
TickEnrollmentIds(c) ==
    {e \in CampaignEnrollmentIds(c) : enrolls[e].status \in {"active", "engaged"}}

\* next_step of line 517
NextStep(enr) == enr.current_step + 1

\* A check that never lets a later step go out
ShouldSendMessageFirstOnly(enr, msg, t) ==
    IF msg.sequence_order = 1 THEN enr.current_step = 0 ELSE FALSE

\* A check that lets every later step go out as soon as the previous one did
ShouldSendMessageNoDelay(enr, msg, t) ==
    IF msg.sequence_order = 1 THEN enr.current_step = 0
    ELSE enr.last_message_at # None

\* _should_send_message (lines 550-570)
ShouldSendMessage(enr, msg, t) ==
    IF msg.sequence_order = 1 THEN enr.current_step = 0
    ELSE IF enr.last_message_at = None THEN FALSE
    ELSE WholeDays(t, enr.last_message_at) >= msg.days_after_previous

\* existing_send of _send_campaign_message (lines 578-588): a scheduled
\* send of the pair created since 00:00 UTC of today
AlreadySentToday(e, m, t) ==
    \E i \in ScheduledSends(e, m) : sends[i].created_at >= TodayStart(t)

\* message_body of _send_campaign_message (lines 590-600): the test's
\* variant_b_body for a variant-B enrollment of a message flagged as
\* A/B-tested, else the message's own body.  The bodies hold no template
\* variable, so _fill_campaign_template returns them as they are.
SendBody(e, m) ==
    IF /\ messages[m].has_ab_test
       /\ enrolls[e].ab_variant = "B"
       /\ MessageABTests(m) # {}
    THEN abTests[CHOOSE i \in MessageABTests(m) : TRUE].variant_b_body
    ELSE messages[m].message_body

\* the CampaignSend row of lines 612-622 / 773-783 once the provider answered
NewSend(c, m, e, type, variant, success, t) ==
    [campaign_id |-> c, campaign_message_id |-> m, enrollment_id |-> e,
     message_type |-> type, ab_variant |-> variant,
     message_body |-> IF type = "followup" THEN messages[m].followup_body
                      ELSE SendBody(e, m),
     status |-> IF success THEN "sent" ELSE "failed",
     error_message |-> IF success THEN "" ELSE "provider error",
     created_at |-> t, sent_at |-> IF success THEN t ELSE None,
     response_received |-> FALSE, response_at |-> None]

\* ab_variant of _send_campaign_message (lines 590-600); "" is None
SendVariant(e, m) ==
    IF messages[m].has_ab_test /\ enrolls[e].ab_variant # ""
    THEN enrolls[e].ab_variant ELSE ""

\* Whether the pass sends a step to enrollment e (lines 520-532, 578-588)
TickSends(e, msgs, t) ==
    /\ NextStep(enrolls[e]) <= Len(msgs)
    /\ LET m == msgs[NextStep(enrolls[e])] IN
       /\ ShouldSendMessage(enrolls[e], messages[m], t)
       /\ ~AlreadySentToday(e, m, t)

\* A pass that advances the enrollment whether the provider accepted the
\* message or not
TickEnrollmentAdvancing(e, msgs, success, t) ==
    LET enr == enrolls[e] IN
    IF enr.current_step + 1 > Len(msgs) THEN [enr EXCEPT !.status = "completed"]
    ELSE LET m == msgs[enr.current_step + 1] IN
         IF (IF messages[m].sequence_order = 1 THEN enr.current_step = 0
             ELSE enr.last_message_at # None
                    /\ WholeDays(t, enr.last_message_at) >= messages[m].days_after_previous)
            /\ ~(\E i \in 1..Len(sends) :
                    /\ sends[i].enrollment_id = e
                    /\ sends[i].campaign_message_id = m
                    /\ sends[i].message_type = "scheduled"
                    /\ sends[i].created_at >= (t \div 24) * 24)
         THEN [enr EXCEPT !.current_step = messages[m].sequence_order,
                          !.last_message_at = t,
                          !.last_message_id = m]
         ELSE enr

\* The enrollment row after the pass (lines 516-532, 629-637)
TickEnrollment(e, msgs, success, t) ==
    LET enr == enrolls[e] IN
    IF NextStep(enr) > Len(msgs) THEN [enr EXCEPT !.status = "completed"]
    ELSE IF TickSends(e, msgs, t) /\ success
    THEN LET m == msgs[NextStep(enr)] IN
         [enr EXCEPT !.current_step = messages[m].sequence_order,
                     !.last_message_at = t,
                     !.last_message_id = m]
    ELSE enr

\* The sends the pass creates for enrollments e..Len(enrolls), in order
RECURSIVE TickNewSends(_, _, _, _, _, _)
TickNewSends(c, loaded, msgs, success, t, e) ==
    IF e > Len(enrolls) THEN <<>>
    ELSE IF e \in loaded /\ TickSends(e, msgs, t)
    THEN <<NewSend(c, msgs[NextStep(enrolls[e])], e, "scheduled",
                   SendVariant(e, msgs[NextStep(enrolls[e])]), success[e], t)>>
            \o TickNewSends(c, loaded, msgs, success, t, e + 1)
    ELSE TickNewSends(c, loaded, msgs, success, t, e + 1)

\* The accepted sends of the pass that count for variant v of the A/B test
\* row (lines 639-648)
TickVariantSends(row, loaded, msgs, success, t, v) ==
    {e \in loaded :
        /\ TickSends(e, msgs, t)
        /\ success[e]
        /\ msgs[NextStep(enrolls[e])] = row.campaign_message_id
        /\ SendVariant(e, row.campaign_message_id) # ""
        /\ (SendVariant(e, row.campaign_message_id) = "A") = (v = "A")}

\* The first A/B test row of each message is the one the pass updates
TickABTest(i, loaded, msgs, success, t) ==
    IF \E j \in 1..(i - 1) :
          abTests[j].campaign_message_id = abTests[i].campaign_message_id
    THEN abTests[i]
    ELSE [abTests[i] EXCEPT
            !.variant_a_sent = @ + Cardinality(
                TickVariantSends(abTests[i], loaded, msgs, success, t, "A")),
            !.variant_b_sent = @ + Cardinality(
                TickVariantSends(abTests[i], loaded, msgs, success, t, "B"))]

\* Whether _process_campaign gets past its early returns (lines 480-496)
CampaignPassRuns(c, t) ==
    /\ campaigns[c].exists
    /\ campaigns[c].status = "active"
    /\ CampaignMessageIds(c) # {}
    /\ IsSendTimeDue(campaigns[c].default_send_time, t)

\* Whether the pass marks the campaign completed (lines 504-511, 536-542)
PassCompletesCampaign(c, msgs) ==
    \A e \in TickEnrollmentIds(c) : NextStep(enrolls[e]) > Len(msgs)

CompletedByTick(row, t) ==
    [row EXCEPT !.status = "completed", !.completed_at = t,
                !.response_tracking_ends_at = t + TrackingWindow]

\* _process_campaign (lines 472-548) with _send_campaign_message (572-662);
\* success[e] is the provider's answer for enrollment e
ProcessCampaign(c, success) ==
    LET loaded == TickEnrollmentIds(c) IN
    IF ~CampaignPassRuns(c, now) THEN UNCHANGED <<campaigns, enrolls, sends, abTests>>
    ELSE \E msgs \in MessageOrders(CampaignMessageIds(c)) :
         /\ enrolls' = [e \in 1..Len(enrolls) |->
                          IF e \in loaded
                          THEN TickEnrollment(e, msgs, success[e], now)
                          ELSE enrolls[e]]
         /\ sends' = sends \o TickNewSends(c, loaded, msgs, success, now, 1)
         /\ abTests' = [i \in 1..Len(abTests) |->
                           TickABTest(i, loaded, msgs, success, now)]
         /\ campaigns' = IF PassCompletesCampaign(c, msgs)
                          THEN [campaigns EXCEPT ![c] = CompletedByTick(@, now)]
                          ELSE campaigns

\* _check_and_send_campaign_messages (lines 452-470)
CheckAndSendCampaignMessages ==
    \E c \in CampaignIds, success \in [1..Len(enrolls) -> BOOLEAN] :
        /\ CampaignPassRuns(c, now)
        /\ ProcessCampaign(c, success)
        /\ lastOp' = [op |-> "campaign_tick", ok |-> TRUE]
        /\ UNCHANGED <<now, bulkVars, messages>>

\* Whether a pass over campaign c at time t would write anything: complete
\* the campaign or an enrollment, or send a step (lines 504-532)
PassHasWork(c, t) ==
    /\ CampaignPassRuns(c, t)
    /\ \E msgs \in MessageOrders(CampaignMessageIds(c)) :
          \/ TickEnrollmentIds(c) = {}
          \/ \E e \in TickEnrollmentIds(c) :
                NextStep(enrolls[e]) > Len(msgs) \/ TickSends(e, msgs, t)

\* _check_and_send_campaign_messages when the provider accepts every message
CheckAndSendCampaignMessagesOK ==
    \E c \in CampaignIds :
        /\ CampaignPassRuns(c, now)
        /\ ProcessCampaign(c, [e \in 1..Len(enrolls) |-> TRUE])
        /\ lastOp' = [op |-> "campaign_tick", ok |-> TRUE]
        /\ UNCHANGED <<now, bulkVars, messages>>

\* The campaign job runs every 60 seconds (lines 50-55), the clock of the
\* model moves by hours: a pass that has something to do runs before the
\* next evening comes
AdvanceAfterTicks ==
    /\ \A c \in CampaignIds : ~PassHasWork(c, now)
    /\ AdvanceToEvening

\* add_message while the campaign is a draft
AddMessageToDraft ==
    /\ \A c \in CampaignIds : campaigns[c].exists => campaigns[c].status = "draft"
    /\ AddMessage

-----------------------------------------------------------------------------
(* The campaign pass followed commit by commit *)

\* The elements of a set of ids in ascending order
AscendingIds(S) ==
    CHOOSE s \in [1..Cardinality(S) -> S] :
        \A i, j \in 1..Cardinality(S) : i < j => s[i] < s[j]

\* Whether a campaign pass is in flight
PassInFlight == \E k \in 1..Len(inflight) : inflight[k].op = "campaign_tick"

\* _process_campaign up to its loop (lines 476-511): the pass reads the
\* campaign, its messages and the active and engaged enrollments into its
\* session.  Without such enrollments it completes the campaign at once.
\* The scheduler runs one campaign pass at a time.
BeginCampaignPass ==
    \E c \in CampaignIds :
      \E msgs \in MessageOrders(CampaignMessageIds(c)) :
        LET ids == AscendingIds(TickEnrollmentIds(c)) IN
        /\ ~PassInFlight
        /\ CampaignPassRuns(c, now)
        /\ inflight' = IF Len(ids) = 0 THEN inflight
                       ELSE Append(inflight,
                              [op |-> "campaign_tick", c |-> c, msgs |-> msgs,
                               ids |-> ids,
                               rows |-> [k \in 1..Len(ids) |-> enrolls[ids[k]]],
                               written |-> [k \in 1..Len(ids) |-> ""],
                               next |-> 1, all_complete |-> TRUE])
        /\ campaigns' = IF Len(ids) = 0
                        THEN [campaigns EXCEPT ![c] = CompletedByTick(@, now)]
                        ELSE campaigns
        /\ lastOp' = [op |-> "begin_campaign_pass", ok |-> TRUE]
        /\ UNCHANGED <<now, bulk, bulkRuns, poll, messages, enrolls, sends, abTests>>

\* The A/B test rows after an accepted send of message m with variant v
\* (lines 639-648)
PassABTests(m, v) ==
    [i \in 1..Len(abTests) |->
        IF \/ v = ""
           \/ abTests[i].campaign_message_id # m
           \/ \E j \in 1..(i - 1) : abTests[j].campaign_message_id = m
        THEN abTests[i]
        ELSE IF v = "A" THEN [abTests[i] EXCEPT !.variant_a_sent = @ + 1]
        ELSE [abTests[i] EXCEPT !.variant_b_sent = @ + 1]]

\* One turn of the loop of _process_campaign (lines 516-532) with
\* _send_campaign_message (572-662).  The loop works on the enrollment as
\* the pass read it.  _send_campaign_message looks for today's Send,
\* transmits, and commits the Send and the A/B counters in a session of its
\* own; the enrollment's new status or step progress stays uncommitted in
\* the session of the pass.
PassStep ==
    \E k \in 1..Len(inflight), success \in BOOLEAN :
        /\ inflight[k].op = "campaign_tick"
        /\ inflight[k].next <= Len(inflight[k].ids)
        /\ LET pass == inflight[k]
               n == pass.next
               e == pass.ids[n]
               row == pass.rows[n]
               done == NextStep(row) > Len(pass.msgs)
               m == pass.msgs[NextStep(row)]
               transmits == /\ ~done
                            /\ ShouldSendMessage(row, messages[m], now)
                            /\ ~AlreadySentToday(e, m, now)
           IN
           /\ ~transmits => success
           /\ sends' = IF transmits
                        THEN Append(sends, NewSend(pass.c, m, e, "scheduled",
                                                   SendVariant(e, m), success, now))
                        ELSE sends
           /\ abTests' = IF transmits /\ success
                          THEN PassABTests(m, SendVariant(e, m)) ELSE abTests
           /\ inflight' = [inflight EXCEPT ![k] =
                 [pass EXCEPT
                    !.next = n + 1,
                    !.all_complete = pass.all_complete /\ done,
                    !.rows[n] = IF done THEN [row EXCEPT !.status = "completed"]
                                ELSE IF transmits /\ success
                                THEN [row EXCEPT
                                        !.current_step = messages[m].sequence_order,
                                        !.last_message_at = now,
                                        !.last_message_id = m]
                                ELSE row,
                    !.written[n] = IF done THEN "status"
                                   ELSE IF transmits /\ success THEN "progress"
                                   ELSE ""]]
           /\ lastOp' = [op |-> "pass_step", ok |-> success]
        /\ UNCHANGED <<now, bulk, bulkRuns, poll, campaigns, messages, enrolls>>

\* The enrollment table after the pass commits (line 534): the UPDATE of a
\* row sets the columns the pass has assigned, status or the step progress,
\* and leaves the other columns as they are in the database
PassCommitted(pass) ==
    [e \in 1..Len(enrolls) |->
        IF \E n \in 1..Len(pass.ids) : pass.ids[n] = e
        THEN LET n == CHOOSE n \in 1..Len(pass.ids) : pass.ids[n] = e IN
             IF pass.written[n] = "status"
             THEN [enrolls[e] EXCEPT !.status = pass.rows[n].status]
             ELSE IF pass.written[n] = "progress"
             THEN [enrolls[e] EXCEPT
                     !.current_step = pass.rows[n].current_step,
                     !.last_message_at = pass.rows[n].last_message_at,
                     !.last_message_id = pass.rows[n].last_message_id]
             ELSE enrolls[e]
        ELSE enrolls[e]]

\* The end of _process_campaign (lines 534-542): the pass commits its
\* enrollments and completes the campaign when every enrollment was done
CommitCampaignPass ==
    \E k \in 1..Len(inflight) :
        /\ inflight[k].op = "campaign_tick"
        /\ inflight[k].next > Len(inflight[k].ids)
        /\ enrolls' = PassCommitted(inflight[k])
        /\ campaigns' = IF inflight[k].all_complete
                        THEN [campaigns EXCEPT ![inflight[k].c] = CompletedByTick(@, now)]
                        ELSE campaigns
        /\ inflight' = RemoveAt(inflight, k)
        /\ lastOp' = [op |-> "campaign_tick", ok |-> TRUE]
        /\ UNCHANGED <<now, bulk, bulkRuns, poll, messages, sends, abTests>>

\* The pass ends without its commit: a storage error raises and the handler
\* rolls the session back (lines 544-548), or the process stops.  What
\* _send_campaign_message has committed stays.
StopCampaignPass ==
    \E k \in 1..Len(inflight) :
        /\ inflight[k].op = "campaign_tick"
        /\ inflight' = RemoveAt(inflight, k)
        /\ lastOp' = [op |-> "campaign_tick", ok |-> FALSE]
        /\ UNCHANGED <<now, bulk, bulkRuns, poll, campVars>>

\* Time passes between two passes: a pass takes seconds
AdvanceBetweenPasses ==
    /\ ~PassInFlight
    /\ AdvanceToEvening

-----------------------------------------------------------------------------
(* The follow-up tick: _check_and_send_followups *)

\* A follow-up pass that also loads the enrollments that replied
FollowupEnrollmentIdsEngaged(c) ==
    {e \in CampaignEnrollmentIds(c) :
        enrolls[e].status \in {"active", "engaged"} /\ enrolls[e].last_message_id # None}

\* the enrollments a follow-up pass loads (lines 701-705)
FollowupEnrollmentIds(c) ==
    {e \in CampaignEnrollmentIds(c) :
        enrolls[e].status \in {"active"} /\ enrolls[e].last_message_id # None}

\* A follow-up check that tries again after a follow-up that failed
FollowupDueRetrying(e, t) ==
    LET enr == enrolls[e]
        m == enr.last_message_id
    IN /\ m \in 1..Len(messages)
       /\ messages[m].enable_followup
       /\ (IF enr.last_message_at # None THEN WholeDays(t, enr.last_message_at) ELSE 0)
             >= messages[m].followup_days
       /\ \A i \in FollowupSends(e, m) : sends[i].status = "failed"

\* Whether the follow-up of enrollment e's last message is due and was not
\* sent before (lines 711-732)
FollowupDue(e, t) ==
    LET enr == enrolls[e]
        m == enr.last_message_id
    IN /\ m \in 1..Len(messages)
       /\ messages[m].enable_followup
       /\ (IF enr.last_message_at # None THEN WholeDays(t, enr.last_message_at) ELSE 0)
             >= messages[m].followup_days
       /\ FollowupSends(e, m) = {}

\* original_send of lines 735-742 is the first row of an unordered query:
\* any scheduled send of the pair.  The pass may send the follow-up when
\* there is no such row or the row the query returns has no response.
OriginalAllowsFollowup(e, m) ==
    \/ ScheduledSends(e, m) = {}
    \/ \E i \in ScheduledSends(e, m) : ~sends[i].response_received

\* ... and may skip it when the row the query returns has a response
OriginalSuppressesFollowup(e, m) ==
    \E i \in ScheduledSends(e, m) : sends[i].response_received

\* The outcomes the follow-up pass can have for enrollment e
FollowupOutcomes(c, e, t) ==
    IF e \in FollowupEnrollmentIds(c) /\ FollowupDue(e, t)
    THEN (IF OriginalAllowsFollowup(e, enrolls[e].last_message_id)
          THEN {"sent", "failed"} ELSE {})
         \cup
         (IF OriginalSuppressesFollowup(e, enrolls[e].last_message_id)
          THEN {"skip"} ELSE {})
    ELSE {"skip"}

\* A follow-up pass that does not look at the campaign's status
FollowupPassRunsAnyStatus(c, t) ==
    /\ campaigns[c].exists
    /\ IsSendTimeDue(campaigns[c].default_send_time, t)

\* Whether _process_followups gets past its early returns (lines 693-698)
FollowupPassRuns(c, t) ==
    /\ campaigns[c].exists
    /\ campaigns[c].status = "active"
    /\ IsSendTimeDue(campaigns[c].default_send_time, t)

\* The sends the pass creates for enrollments e..Len(enrolls), in order
RECURSIVE FollowupNewSends(_, _, _, _)
FollowupNewSends(c, outcome, t, e) ==
    IF e > Len(enrolls) THEN <<>>
    ELSE IF outcome[e] # "skip"
    THEN <<NewSend(c, enrolls[e].last_message_id, e, "followup",
                   enrolls[e].ab_variant, outcome[e] = "sent", t)>>
            \o FollowupNewSends(c, outcome, t, e + 1)
    ELSE FollowupNewSends(c, outcome, t, e + 1)

\* _process_followups (lines 684-753) with _send_followup (755-806)
ProcessFollowups(c, outcome) ==
    IF ~FollowupPassRuns(c, now) THEN UNCHANGED sends
    ELSE sends' = sends \o FollowupNewSends(c, outcome, now, 1)

\* _check_and_send_followups (lines 664-682)
CheckAndSendFollowups ==
    \E c \in CampaignIds :
      \E outcome \in [1..Len(enrolls) -> {"skip", "sent", "failed"}] :
        /\ \A e \in 1..Len(enrolls) :
              outcome[e] \in (IF FollowupPassRuns(c, now)
                              THEN FollowupOutcomes(c, e, now) ELSE {"skip"})
        /\ FollowupPassRuns(c, now)
        /\ ProcessFollowups(c, outcome)
        /\ lastOp' = [op |-> "followup_tick", ok |-> TRUE]
        /\ UNCHANGED <<now, bulkVars, campaigns, messages, enrolls, abTests>>

\* Whether a follow-up pass over campaign c at time t would send something
FollowupHasWork(c, t) ==
    /\ FollowupPassRuns(c, t)
    /\ \E e \in 1..Len(enrolls) : FollowupOutcomes(c, e, t) # {"skip"}

\* The campaign and follow-up jobs run every 60 seconds (lines 50-62), the
\* clock of the model moves by days: a pass that has something to do runs
\* before the next day comes
AdvanceDayAfterTicks ==
    /\ \A c \in CampaignIds : ~PassHasWork(c, now) /\ ~FollowupHasWork(c, now)
    /\ AdvanceClock

\* add_message, with follow-ups, while the campaign is a draft
AddSpacedMessageToDraft ==
    /\ \A c \in CampaignIds : campaigns[c].exists => campaigns[c].status = "draft"
    /\ AddSpacedMessage

-----------------------------------------------------------------------------
(* Inbound messages: record_response *)

\* An inbound message that is matched against enrollments of any status
ResponseEnrollmentIdsAnyStatus(phone, t) ==
    {e \in 1..Len(enrolls) :
        /\ enrolls[e].phone_number = phone
        /\ LET camp == campaigns[enrolls[e].campaign_id] IN
           /\ camp.exists
           /\ \/ camp.status \in {"active", "paused"}
              \/ /\ camp.status = "completed"
                 /\ camp.response_tracking_ends_at > t}

\* A query that does not look at the campaign of the enrollment
ResponseEnrollmentIdsAnyCampaign(phone, t) ==
    {e \in 1..Len(enrolls) :
        /\ enrolls[e].phone_number = phone
        /\ enrolls[e].status \in {"active", "engaged"}}

\* the enrollments record_response loads for a normalized phone (lines 577-589)
ResponseEnrollmentIds(phone, t) ==
    {e \in 1..Len(enrolls) :
        /\ enrolls[e].phone_number = phone
        /\ enrolls[e].status \in {"active", "engaged"}
        /\ LET camp == campaigns[enrolls[e].campaign_id] IN
           /\ camp.exists
           /\ \/ camp.status \in {"active", "paused"}
              \/ /\ camp.status = "completed"
                 /\ camp.response_tracking_ends_at > t}

\* the enrollment row after lines 592-603
RespondedEnrollment(enr, body, t) ==
    IF IsOptOut(body)
    THEN [enr EXCEPT !.status = "opted_out", !.opted_out_at = t,
                     !.opted_out_keyword = Prefix(body, 50)]
    ELSE [enr EXCEPT
            !.first_response_at = IF @ = None THEN t ELSE @,
            !.first_response_message_id =
                IF enr.first_response_at = None THEN enr.last_message_id ELSE @,
            !.status = "engaged",
            !.response_count = @ + 1]

\* the sends of the enrollment's last message without a response (lines 607-611)
UnansweredSends(e) ==
    {i \in 1..Len(sends) : /\ sends[i].enrollment_id = e
                           /\ sends[i].campaign_message_id = enrolls[e].last_message_id
                           /\ ~sends[i].response_received}

\* last_send: the first row of UnansweredSends ordered by sent_at descending.
\* Rows whose sent_at is NULL (failed sends) sort first on PostgreSQL and
\* last on SQLite; among the others the later row has the later sent_at.
LastSend(e, nulls_first) ==
    LET cand == UnansweredSends(e)
        nulls == {i \in cand : sends[i].sent_at = None}
        dated == cand \ nulls
        newest(S) == CHOOSE i \in S : \A j \in S :
                        \/ sends[i].sent_at > sends[j].sent_at
                        \/ sends[i].sent_at = sends[j].sent_at /\ i >= j
        anyOf(S) == CHOOSE i \in S : \A j \in S : i >= j
    IN IF enrolls[e].last_message_id = None \/ cand = {} THEN 0
       ELSE IF nulls # {} /\ (nulls_first \/ dated = {}) THEN anyOf(nulls)
       ELSE newest(dated)

\* The inbound messages: the sender's number as the webhook gets it, and
\* the text
InboundPhones == {RawAPlus, RawB10}
InboundBodies == {<<"S","T","O","P">>, <<"y","e","s">>}

\* record_response (lines 558-626) called with the sender's number and the
\* text; nulls_first is how the database orders a NULL sent_at
record_response(raw, body, nulls_first) ==
    LET phone == normalize_phone(raw)
        loaded == ResponseEnrollmentIds(phone, now)
        marked == {LastSend(e, nulls_first) : e \in loaded} \ {0}
    IN
    /\ IsOptOut(body) \/ \A e \in loaded : enrolls[e].response_count < MaxResponses
    /\ enrolls' = [e \in 1..Len(enrolls) |->
                     IF e \in loaded
                     THEN RespondedEnrollment(enrolls[e], body, now)
                     ELSE enrolls[e]]
    /\ sends' = [i \in 1..Len(sends) |->
                   IF i \in marked
                   THEN [sends[i] EXCEPT !.response_received = TRUE,
                                         !.response_at = now]
                   ELSE sends[i]]
    /\ lastOp' = [op |-> "record_response", ok |-> TRUE]
    /\ UNCHANGED <<now, bulkVars, campaigns, messages, abTests>>

RecordResponse ==
    \E raw \in InboundPhones, body \in InboundBodies, nulls_first \in BOOLEAN :
        record_response(raw, body, nulls_first)

\* Thirty days pass at once: the response-tracking window of a campaign
\* completed before has ended afterwards
AdvancePastWindow ==
    /\ now <= MaxTime
    /\ now' = now + TrackingWindow
    /\ lastOp' = [op |-> "clock", ok |-> TRUE]
    /\ UNCHANGED <<bulkVars, campVars>>

-----------------------------------------------------------------------------
(* Specifications *)

InitCommon ==
    /\ now = StartTime
    /\ bulkRuns = <<>>
    /\ poll = IdlePoll
    /\ inflight = <<>>
    /\ campaigns = [c \in CampaignIds |-> NoCampaign]
    /\ messages = <<>>
    /\ enrolls = <<>>
    /\ sends = <<>>
    /\ abTests = <<>>
    /\ lastOp = [op |-> "init", ok |-> TRUE]

\* The campaign engine starts on an empty store
Init ==
    /\ InitCommon
    /\ bulk = <<>>

Next ==
    \/ AdvanceToEvening
    \/ CreateFilteredCampaign
    \/ AddMessage
    \/ EnrollFiltered
    \/ StartCampaign
    \/ PauseCampaign
    \/ ResumeCampaign
    \/ CompleteCampaign
    \/ CheckAndSendCampaignMessages
    \/ CheckAndSendFollowups
    \/ RecordResponse

Spec == Init /\ [][Next]_vars

\* The dashboard's campaign calls while the scheduler is not running
NextEnroll ==
    \/ AdvanceToEvening
    \/ CreateCampaign
    \/ AddMessage
    \/ EnrollContacts
    \/ StartCampaign
    \/ PauseCampaign
    \/ ResumeCampaign
    \/ CompleteCampaign

SpecEnroll == Init /\ [][NextEnroll]_vars

\* The dashboard's administration of a campaign next to the campaign tick,
\* within one evening; no inbound messages
NextAdmin ==
    \/ CreateFilteredCampaign
    \/ AddMessage
    \/ SetupABTest
    \/ EnrollFiltered
    \/ StartCampaign
    \/ PauseCampaign
    \/ ResumeCampaign
    \/ CompleteCampaign
    \/ UpdateCampaign
    \/ DeleteCampaign
    \/ CheckAndSendCampaignMessages

SpecAdmin == Init /\ [][NextAdmin]_vars

\* A campaign with A/B tests: the tests are set up and removed while the
\* campaign runs and steps and follow-ups go out
NextAB ==
    \/ AdvanceToEvening
    \/ CreateFilteredCampaign
    \/ AddMessage
    \/ SetupABTest
    \/ RemoveABTest
    \/ EnrollFiltered
    \/ StartCampaign
    \/ CheckAndSendCampaignMessages
    \/ CheckAndSendFollowups

SpecAB == Init /\ [][NextAB]_vars

\* A campaign with A/B tests whose contacts reply, within one evening
NextABReplies ==
    \/ CreateFilteredCampaign
    \/ AddMessage
    \/ SetupABTest
    \/ EnrollFiltered
    \/ StartCampaign
    \/ CheckAndSendCampaignMessages
    \/ RecordResponse

SpecABReplies == Init /\ [][NextABReplies]_vars

\* The dashboard adds and deletes messages of a campaign, before and after
\* its steps went out, within one evening
NextMessages ==
    \/ CreateFilteredCampaign
    \/ AddMessage
    \/ AddMessageAt
    \/ DeleteMessage
    \/ SetupABTest
    \/ EnrollFiltered
    \/ StartCampaign
    \/ CheckAndSendCampaignMessages

SpecMessages == Init /\ [][NextMessages]_vars

\* The dashboard's calls that write sequence positions
NextSequence ==
    \/ CreateFilteredCampaign
    \/ AddMessage
    \/ AddMessageAt
    \/ UpdateMessage
    \/ ReorderMessages
    \/ DeleteMessage

SpecSequence == Init /\ [][NextSequence]_vars

\* A campaign whose messages can have a send time of their own
NextSendTime ==
    \/ AdvanceToEvening
    \/ CreateFilteredCampaign
    \/ AddTimedMessage
    \/ EnrollFiltered
    \/ StartCampaign
    \/ CheckAndSendCampaignMessages
    \/ CheckAndSendFollowups

SpecSendTime == Init /\ [][NextSendTime]_vars

\* A campaign whose sequence is fixed when it is started, whose sends the
\* provider accepts and whose contacts may reply or opt out
NextLive ==
    \/ AdvanceAfterTicks
    \/ CreateFilteredCampaign
    \/ AddMessageToDraft
    \/ EnrollFiltered
    \/ StartCampaign
    \/ CheckAndSendCampaignMessagesOK
    \/ RecordResponse

\* The scheduler's interval job keeps running the campaign pass and time
\* keeps passing
SpecLive ==
    /\ Init
    /\ [][NextLive]_vars
    /\ WF_vars(CheckAndSendCampaignMessagesOK)
    /\ WF_vars(AdvanceAfterTicks)

\* A campaign whose messages all have follow-ups, whose sends the provider
\* may refuse and whose contacts may reply or opt out, over three days
NextFollow ==
    \/ AdvanceDayAfterTicks
    \/ CreateFilteredCampaign
    \/ AddSpacedMessageToDraft
    \/ EnrollFiltered
    \/ StartCampaign
    \/ CheckAndSendCampaignMessagesOK
    \/ CheckAndSendFollowups
    \/ RecordResponse

\* The scheduler's interval jobs keep running both passes and time keeps
\* passing
SpecFollow ==
    /\ Init
    /\ [][NextFollow]_vars
    /\ WF_vars(CheckAndSendCampaignMessagesOK)
    /\ WF_vars(CheckAndSendFollowups)
    /\ WF_vars(AdvanceDayAfterTicks)

\* Campaigns with contacts of two phones in every stage of their life, and
\* the replies of both phones
NextReplies ==
    \/ AdvancePastWindow
    \/ CreateFilteredCampaign
    \/ AddMessageToDraft
    \/ EnrollTwoPhones
    \/ StartCampaign
    \/ PauseCampaign
    \/ CompleteCampaign
    \/ RecordResponse

SpecReplies == Init /\ [][NextReplies]_vars

\* The dashboard edits the sequence of a campaign while its steps go out
NextEdits ==
    \/ AdvanceToEvening
    \/ CreateFilteredCampaign
    \/ AddMessage
    \/ UpdateMessage
    \/ ReorderMessages
    \/ DeleteMessage
    \/ EnrollFiltered
    \/ StartCampaign
    \/ PauseCampaign
    \/ ResumeCampaign
    \/ CheckAndSendCampaignMessagesOK

SpecEdits == Init /\ [][NextEdits]_vars

\* Calls of enroll_contacts that overlap: the web server handles requests
\* in parallel
NextEnrollCalls ==
    \/ CreateCampaign
    \/ BeginEnroll
    \/ CommitEnroll

SpecEnrollCalls == Init /\ [][NextEnrollCalls]_vars

\* The campaign pass followed commit by commit, next to the webhook that
\* records inbound messages; a pass can end without its last commit
NextPassSteps ==
    \/ AdvanceBetweenPasses
    \/ CreateFilteredCampaign
    \/ AddMessageToDraft
    \/ EnrollFiltered
    \/ StartCampaign
    \/ BeginCampaignPass
    \/ PassStep
    \/ CommitCampaignPass
    \/ StopCampaignPass
    \/ RecordResponse

SpecPassSteps == Init /\ [][NextPassSteps]_vars

\* The bulk scheduler starts on a store that is empty or holds one row
\* written before the process started
InitBulk ==
    /\ InitCommon
    /\ bulk \in {<<>>} \cup {<<StoredRow(p)>> : p \in StoredPayloads}

NextBulk ==
    \/ AdvanceClock
    \/ ScheduleBulkMessage
    \/ CheckAndSendDueMessages
    \/ CancelScheduledMessage
    \/ PauseScheduledMessage
    \/ ResumeScheduledMessage

SpecBulk == InitBulk /\ [][NextBulk]_vars

\* The dashboard's scheduling calls while the scheduler is not running
NextSchedule ==
    \/ AdvanceClock
    \/ ScheduleBulkMessage
    \/ CancelScheduledMessage
    \/ PauseScheduledMessage
    \/ ResumeScheduledMessage

SpecSchedule == Init /\ [][NextSchedule]_vars

\* Recurring rows as schedule_bulk_message stores them and
\* pause_scheduled_message leaves them: every recurrence type, anchors
\* before, at and after the start of the clock, and end dates before, at
\* and after the anchor
CalcRows ==
    {[NewBulkRow(Request(<<PhoneA>>, PlainBody, at, TRUE, type, days, end))
         EXCEPT !.status = "paused"] :
        at \in {StartTime - 24, StartTime, StartTime + 24},
        type \in {"daily", "weekly", "monthly"},
        days \in {<<>>, <<"MON", " Wed">>},
        end \in {None, StartTime, StartTime + 24, StartTime + 48}}

InitCalc ==
    /\ InitCommon
    /\ bulk \in {<<row>> : row \in CalcRows}

\* The recurrence calculator applied by resume_scheduled_message as the
\* clock advances
NextCalc ==
    \/ AdvanceClock
    \/ PauseScheduledMessage
    \/ ResumeScheduledMessage

SpecCalc == InitCalc /\ [][NextCalc]_vars

\* Requests of the runs that are followed commit by commit
StepRequests ==
    {OneOff(<<PhoneA, PhoneB>>, PlainBody, StartTime),
     OneOff(<<PhoneA>>, TemplateBody, StartTime),
     Request(<<PhoneA>>, PlainBody, StartTime, TRUE, "weekly", <<"MON", " Wed">>,
             StartTime + 48),
     Request(<<PhoneB>>, PlainBody, StartTime + 24, TRUE, "weekly", <<"mon", "wed">>,
             StartTime + 48)}

ScheduleStepRequest == \E req \in StepRequests : schedule_bulk_message(req)

\* The bulk scheduler followed commit by commit: the dashboard's calls and
\* the clock run between the commits of a poll
NextBulkSteps ==
    \/ AdvanceClock
    \/ ScheduleStepRequest
    \/ StartPoll
    \/ BeginBulkSend
    \/ SendToRecipient
    \/ FinishBulkSend
    \/ CancelScheduledMessage
    \/ PauseScheduledMessage
    \/ ResumeScheduledMessage

\* The store is empty or holds one row whose recipient text is empty
InitBulkSteps ==
    /\ InitCommon
    /\ bulk \in {<<>>, <<StoredRow([kind |-> "empty", items |-> <<>>])>>}

SpecBulkSteps == InitBulkSteps /\ [][NextBulkSteps]_vars

\* The bulk scheduler followed read by read and commit by commit: the
\* dashboard's calls also run between the read of a due row and the commit
\* that marks it in_progress
NextBulkCalls ==
    \/ AdvanceClock
    \/ ScheduleStepRequest
    \/ StartPoll
    \/ ReadBulkRow
    \/ MarkInProgress
    \/ SendToRecipient
    \/ FinishBulkSend
    \/ CancelScheduledMessage
    \/ PauseScheduledMessage
    \/ ResumeScheduledMessage

SpecBulkCalls == InitBulkSteps /\ [][NextBulkCalls]_vars


-----------------------------------------------------------------------------
(* Properties of the bulk scheduler, checked under SpecSchedule (C1) and
   SpecBulk (C2, C8) *)

\* The request is one that the validation has to refuse
C1_Invalid(req) ==
    \/ Len(req.phone_numbers) = 0
    \/ Len(req.phone_numbers) > 50
    \/ \E i \in 1..Len(req.phone_numbers) :
          \/ ~req.phone_numbers[i].isStr
          \/ Len(req.phone_numbers[i].chars) < 10
    \/ /\ req.is_recurring
       /\ req.recurrence_type \notin {"daily", "weekly", "monthly"}
    \/ /\ req.is_recurring
       /\ req.recurrence_type = "weekly"
       /\ \E i \in 1..Len(req.recurrence_days) :
             StripLower(req.recurrence_days[i])
                \notin {"mon", "tue", "wed", "thu", "fri", "sat", "sun"}

\* C1: schedule_bulk_message with an empty recipient list, more than 50
\* recipients, a recipient that is no string of at least 10 characters, a
\* recurrence type outside daily/weekly/monthly or an invalid weekly day name
\* raises a validation error and creates no row; a call with exactly 50 valid
\* recipients succeeds and creates exactly one row, in status pending.
C1_ScheduleValidation ==
    [][\A req \in BulkRequests :
          (lastOp'.op = "schedule_bulk_message" /\ schedule_bulk_message(req)) =>
          /\ C1_Invalid(req) => /\ ~lastOp'.ok
                                /\ bulk' = bulk
          /\ (Len(req.phone_numbers) = 50 /\ ~C1_Invalid(req)) =>
                /\ lastOp'.ok
                /\ Len(bulk') = Len(bulk) + 1
                /\ SubSeq(bulk', 1, Len(bulk)) = bulk
                /\ bulk'[Len(bulk')].status = "pending"
                /\ bulk'[Len(bulk')].recipient_phones = JsonDumps(req.phone_numbers)]_vars

\* C1 witness: a request of 50 recipients was stored as one pending row and
\* a later request has just been refused, leaving the store as it was
C1_Witness ==
    /\ lastOp.op = "schedule_bulk_message"
    /\ ~lastOp.ok
    /\ Len(bulk) = 1
    /\ bulk[1].status = "pending"
    /\ bulk[1].total_recipients = 50

\* The stored recipient payload is not a JSON list of 1..50 entries
C2_BadPayload(payload) ==
    \/ payload.kind # "array"
    \/ Len(payload.items) = 0
    \/ Len(payload.items) > 50

\* C2: when the poll executes a due pending row whose stored recipient payload
\* is malformed, empty or longer than 50 entries, the row goes to status
\* failed and the Message Sender is called zero times for it.
C2_MalformedPayloadFails ==
    [][lastOp'.op = "poll" =>
          \A i \in 1..Len(bulk) :
             (IsDue(bulk[i]) /\ C2_BadPayload(bulk[i].recipient_phones)) =>
                /\ bulk'[i].status = "failed"
                /\ \A k \in (Len(bulkRuns) + 1)..Len(bulkRuns') :
                      bulkRuns'[k].id = i => bulkRuns'[k].calls = 0]_vars

\* C8: a bulk message is executed exactly once per due time: a poll leaves no
\* pending row whose scheduled time has passed, no row is executed twice for
\* the same occurrence, and a non-recurring row is executed at most once.
C8_ExactlyOncePerDueTime ==
    /\ lastOp.op = "poll" => \A i \in 1..Len(bulk) : ~IsDue(bulk[i])
    /\ \A j, k \in 1..Len(bulkRuns) :
          (j < k /\ bulkRuns[j].id = bulkRuns[k].id) =>
             /\ bulkRuns[j].recurring
             /\ bulkRuns[j].occurrence < bulkRuns[k].occurrence

\* C8 witness: a recurring row was sent for two occurrences, and a poll has
\* just run
C8_Witness ==
    /\ lastOp.op = "poll"
    /\ \E j, k \in 1..Len(bulkRuns) :
          /\ j < k
          /\ bulkRuns[j].id = bulkRuns[k].id
          /\ bulkRuns[j].calls > 0
          /\ bulkRuns[k].calls > 0
          /\ bulkRuns[k].occurrence > bulkRuns[j].occurrence


-----------------------------------------------------------------------------
(* Properties of the campaign engine, checked under Spec *)

\* The calendar day of hour t in US Eastern time, counted from the epoch
EasternDay(t) == ((t + 24 - EasternOffset) \div 24) - 1

\* C3: for every (enrollment, message) pair, the runs of the campaign pass
\* within one calendar day of US Eastern time create at most one
\* scheduled-type CampaignSend, whether the first attempt was sent or failed.
C3_OneScheduledSendPerLocalDay ==
    \A i, j \in 1..Len(sends) :
       (/\ i < j
        /\ sends[i].message_type = "scheduled"
        /\ sends[j].message_type = "scheduled"
        /\ sends[i].enrollment_id = sends[j].enrollment_id
        /\ sends[i].campaign_message_id = sends[j].campaign_message_id)
       => EasternDay(sends[i].created_at) # EasternDay(sends[j].created_at)

\* C4: a scheduled Send for the message at sequence step N >= 2 is created
\* only after a Send for step N-1 exists for the enrollment (one that the
\* provider accepted); step N+1 is never sent before step N.
C4_SequentialProgression ==
    \A j \in 1..Len(sends) :
       LET n == messages[sends[j].campaign_message_id].sequence_order IN
       (sends[j].message_type = "scheduled" /\ n >= 2) =>
          \E i \in 1..(j - 1) :
             /\ sends[i].enrollment_id = sends[j].enrollment_id
             /\ sends[i].message_type = "scheduled"
             /\ sends[i].status = "sent"
             /\ messages[sends[i].campaign_message_id].campaign_id
                   = messages[sends[j].campaign_message_id].campaign_id
             /\ messages[sends[i].campaign_message_id].sequence_order = n - 1

\* C4 witness: an enrollment got step 1 and then step 2
C4_Witness ==
    \E i, j \in 1..Len(sends) :
       /\ i < j
       /\ sends[i].enrollment_id = sends[j].enrollment_id
       /\ sends[i].message_type = "scheduled"
       /\ sends[j].message_type = "scheduled"
       /\ messages[sends[i].campaign_message_id].sequence_order = 1
       /\ messages[sends[j].campaign_message_id].sequence_order = 2
       /\ sends[j].status = "sent"

\* C5: once an enrollment has status opted_out its row never changes again,
\* whatever inbound text, tick or lifecycle operation follows, and no pass
\* creates a scheduled or follow-up Send for it.
C5_OptOutTerminal ==
    [][\A e \in 1..Len(enrolls) :
          enrolls[e].status = "opted_out" =>
             /\ enrolls'[e] = enrolls[e]
             /\ \A k \in (Len(sends) + 1)..Len(sends') :
                   sends'[k].enrollment_id # e]_vars

\* C5 witness: the enrollment opted out after its first message, a later
\* campaign pass has just run, and the enrollment got nothing since
C5_Witness ==
    /\ lastOp.op = "campaign_tick"
    /\ \E e \in 1..Len(enrolls) :
          /\ enrolls[e].status = "opted_out"
          /\ enrolls[e].current_step = 1
          /\ now > enrolls[e].opted_out_at
          /\ \A k \in 1..Len(sends) :
                sends[k].enrollment_id = e => sends[k].created_at <= enrolls[e].opted_out_at

\* A response was recorded for a scheduled Send of (e, m) before the
\* follow-up delay of m, counted from the accepted Send, had elapsed
C6_RespondedInTime(e, m) ==
    \E i \in 1..Len(sends) :
       /\ sends[i].enrollment_id = e
       /\ sends[i].campaign_message_id = m
       /\ sends[i].message_type = "scheduled"
       /\ sends[i].response_received
       /\ \A j \in 1..Len(sends) :
             (/\ sends[j].enrollment_id = e
              /\ sends[j].campaign_message_id = m
              /\ sends[j].message_type = "scheduled"
              /\ sends[j].status = "sent")
             => sends[i].response_at < sends[j].sent_at + 24 * messages[m].followup_days

\* C6: if an inbound response is recorded for an enrollment's Send of a
\* message before the message's follow-up delay has elapsed, no followup-type
\* Send exists for the (enrollment, message) pair, after any later pass.
C6_FollowupSuppressed ==
    \A e \in 1..Len(enrolls), m \in 1..Len(messages) :
       C6_RespondedInTime(e, m) =>
          ~\E k \in 1..Len(sends) : /\ sends[k].enrollment_id = e
                                    /\ sends[k].campaign_message_id = m
                                    /\ sends[k].message_type = "followup"

\* C6 witness: the reply came in time, the delay has elapsed since, the
\* campaign is active and a follow-up pass has just run
C6_Witness ==
    /\ lastOp.op = "followup_tick"
    /\ \E e \in 1..Len(enrolls) :
          LET m == enrolls[e].last_message_id IN
          /\ m # None
          /\ messages[m].enable_followup
          /\ C6_RespondedInTime(e, m)
          /\ now >= enrolls[e].last_message_at + 24 * messages[m].followup_days
          /\ campaigns[enrolls[e].campaign_id].status = "active"

\* start_campaign, pause_campaign or resume_campaign has to refuse in the
\* state the campaign is in
C9_MustReject(op, c) ==
    CASE op = "start_campaign" ->
            \/ campaigns[c].status \notin {"draft", "paused"}
            \/ ~\E m \in 1..Len(messages) : messages[m].campaign_id = c
            \/ ~\E e \in 1..Len(enrolls) : enrolls[e].campaign_id = c
      [] op = "pause_campaign"  -> campaigns[c].status # "active"
      [] op = "resume_campaign" -> campaigns[c].status # "paused"
      [] OTHER -> FALSE

\* C9: start_campaign is rejected unless the campaign is draft or paused and
\* has a message and an enrollment; pause_campaign unless it is active;
\* resume_campaign unless it is paused; a rejected call raises an error and
\* leaves the campaign's status and timestamps unchanged.
C9_LifecycleGuards ==
    [][\A c \in CampaignIds :
          lastOp'.op \in {"start_campaign", "pause_campaign", "resume_campaign"} =>
             /\ C9_MustReject(lastOp'.op, c) => ~lastOp'.ok
             /\ ~lastOp'.ok => campaigns'[c] = campaigns[c]]_vars

\* C9 witness: start_campaign has just been refused for a draft campaign
\* that has a message but no enrollment
C9_Witness ==
    /\ lastOp.op = "start_campaign"
    /\ ~lastOp.ok
    /\ \E c \in CampaignIds :
          /\ campaigns[c].status = "draft"
          /\ campaigns[c].started_at = None
          /\ CampaignMessageIds(c) # {}
          /\ CampaignEnrollmentIds(c) = {}

\* The edges of the campaign lifecycle
C10_Edges ==
    {<<"draft", "active">>, <<"active", "paused">>, <<"paused", "active">>,
     <<"active", "completed">>, <<"paused", "completed">>}

\* C10: every change of a campaign's status, by an operation or by the tick,
\* follows an edge of the lifecycle; a draft campaign never becomes completed
\* without having been active.
C10_LifecycleEdges ==
    [][\A c \in CampaignIds :
          (campaigns[c].exists /\ campaigns'[c].status # campaigns[c].status) =>
             <<campaigns[c].status, campaigns'[c].status>> \in C10_Edges]_vars

-----------------------------------------------------------------------------
(* Properties of enrollment, checked under SpecEnroll *)

\* The national number a stored or raw phone spells: its last ten digits
C7_Number(phone) ==
    LET digits == DigitsOf(phone) IN
    IF Len(digits) <= 10 THEN digits
    ELSE SubSeq(digits, Len(digits) - 9, Len(digits))

\* C7: after any sequence of enroll_contacts calls, with contacts arriving by
\* explicit list, by filter or by manual list and in any formatting of the
\* same number, there is at most one CampaignEnrollment row per (campaign,
\* normalized phone); a repeated phone is skipped without error and without
\* altering the existing row.
C7_EnrollmentUnique ==
    [][/\ \A e1, e2 \in 1..Len(enrolls') :
             (/\ e1 < e2
              /\ enrolls'[e1].campaign_id = enrolls'[e2].campaign_id)
             => C7_Number(enrolls'[e1].phone_number) # C7_Number(enrolls'[e2].phone_number)
       /\ (lastOp'.op = "enroll_contacts"
             /\ \E c \in CampaignIds : campaigns[c].exists) =>
             /\ lastOp'.ok
             /\ Len(enrolls') >= Len(enrolls)
             /\ SubSeq(enrolls', 1, Len(enrolls)) = enrolls]_vars

\* C7 witness: the filter's contact and the manual contact of one call spell
\* the same number differently, the call has enrolled nobody because the
\* number was enrolled before, and the row is the one of the first call
C7_Witness ==
    /\ lastOp.op = "enroll_contacts"
    /\ lastOp.ok
    /\ lastOp.req.use_filters
    /\ lastOp.enrolled_count = 0
    /\ \E c \in CampaignIds : campaigns[c].has_filter
    /\ Len(enrolls) = 1
    /\ enrolls[1].contact_name = "Ann"
    /\ enrolls[1].phone_number = RawAPlus

-----------------------------------------------------------------------------
(* Properties of campaign administration, checked under SpecAdmin (C11, C12) *)

\* C11: a campaign whose status is completed stays completed: no start,
\* pause, resume, complete, update or delete call and no tick moves it to
\* another status or removes it.
C11_CompletedIsTerminal ==
    [][\A c \in CampaignIds :
          (campaigns[c].exists /\ campaigns[c].status = "completed")
          => (campaigns'[c].exists /\ campaigns'[c].status = "completed")]_vars

\* an update that names the status has just run on a completed campaign
C11_Witness ==
    /\ lastOp.op = "update_campaign"
    /\ lastOp.ok
    /\ "status" \in DOMAIN lastOp.req
    /\ \E c \in CampaignIds : campaigns[c].exists /\ campaigns[c].status = "completed"

C12_RowsOf(c, table) == {i \in 1..Len(table) : table[i].campaign_id = c}

\* C12: delete_campaign on a campaign that is not in draft raises and
\* removes nothing (campaign, messages, enrollments, A/B tests and sends
\* stay as they were); on a draft campaign it removes the campaign and
\* every message, enrollment, A/B test and send of it.
C12_DeleteOnlyDraft ==
    [][\A c \in CampaignIds :
          (lastOp'.op = "delete_campaign" /\ campaigns[c].exists)
          => IF campaigns[c].status # "draft"
             THEN ~lastOp'.ok /\ UNCHANGED campVars
             ELSE /\ lastOp'.ok
                  /\ ~campaigns'[c].exists
                  /\ C12_RowsOf(c, messages') = {}
                  /\ C12_RowsOf(c, enrolls') = {}
                  /\ C12_RowsOf(c, abTests') = {}
                  /\ C12_RowsOf(c, sends') = {}]_vars

\* a deletion has just removed a draft campaign that had at least a
\* message, an A/B test and an enrollment
C12_Witness ==
    /\ lastOp.op = "delete_campaign"
    /\ lastOp.ok
    /\ lastOp.removed >= 3
    /\ \A c \in CampaignIds : ~campaigns[c].exists

-----------------------------------------------------------------------------
(* Properties of the ticks and the lifecycle, checked under Spec (C13) *)

\* C13: a scheduled or follow-up Send is created only by a pass that finds
\* the campaign in status active; while the campaign is draft, paused or
\* completed no tick adds a Send for it.
C13_SendsOnlyWhileActive ==
    [][\A i \in (Len(sends) + 1)..Len(sends') :
          /\ campaigns[sends'[i].campaign_id].exists
          /\ campaigns[sends'[i].campaign_id].status = "active"]_vars

\* a follow-up pass has just added a Send for a campaign that was paused
\* after its first step and started again today
C13_Witness ==
    /\ lastOp.op = "followup_tick"
    /\ \E i \in 1..Len(sends) :
          /\ sends[i].message_type = "followup"
          /\ sends[i].created_at = now
          /\ campaigns[sends[i].campaign_id].status = "active"
          /\ campaigns[sends[i].campaign_id].started_at = now

-----------------------------------------------------------------------------
(* Properties of the bulk scheduler followed commit by commit, checked
   under SpecBulkSteps (C14, C15, C16, C17, C19) *)

C14_Allowed ==
    {<<"pending", "in_progress">>, <<"in_progress", "completed">>,
     <<"in_progress", "failed">>, <<"in_progress", "pending">>,
     <<"pending", "failed">>, <<"pending", "paused">>, <<"paused", "pending">>,
     <<"paused", "completed">>, <<"pending", "cancelled">>,
     <<"paused", "cancelled">>}

C15_Accepts(op) ==
    CASE op = "cancel_scheduled_message" -> {"pending", "paused"}
      [] op = "pause_scheduled_message"  -> {"pending"}
      [] OTHER                           -> {"paused"}

C15_Call(op, id) ==
    CASE op = "cancel_scheduled_message" -> cancel_scheduled_message(id)
      [] op = "pause_scheduled_message"  -> pause_scheduled_message(id)
      [] OTHER                           -> resume_scheduled_message(id)

\* C15: cancel succeeds only on a pending or paused row, pause only on a
\* pending row, resume only on a paused row; on a missing row or a row in
\* any other status each returns False and changes no field of any row.
C15_BulkCallGuards ==
    [][\A op \in {"cancel_scheduled_message", "pause_scheduled_message",
                   "resume_scheduled_message"} :
         \A id \in 1..MaxBulk :
            (lastOp'.op = op /\ C15_Call(op, id))
            => IF id <= Len(bulk) /\ bulk[id].status \in C15_Accepts(op)
               THEN TRUE
               ELSE ~lastOp'.ok /\ bulk' = bulk]_vars

\* a cancel has just been refused for a row that is in the middle of a run
C15_Witness ==
    /\ lastOp.op = "cancel_scheduled_message"
    /\ ~lastOp.ok
    /\ poll.id # 0
    /\ bulk[poll.id].status = "in_progress"
    /\ poll.next = 2

\* C16: the stored recipient list of a scheduled bulk message is never
\* changed after creation by any operation (run, reschedule, pause, resume,
\* cancel), and every phone passed to the Message Sender during a run of
\* the message is an entry of that stored list.
C16_RecipientsFixed ==
    [][/\ \A i \in 1..Len(bulk) :
             /\ i <= Len(bulk')
             /\ bulk'[i].recipient_phones = bulk[i].recipient_phones
       /\ (poll'.id # 0 /\ bulk'[poll'.id].recipient_phones.kind = "array")
             => \A k \in 1..Len(poll'.calls) :
                   poll'.calls[k].phone \in Range(bulk'[poll'.id].recipient_phones.items)
      ]_vars

\* a recurring row is in a later run and its recipient has just been
\* passed to the Message Sender again
C16_Witness ==
    /\ poll.id # 0
    /\ Len(poll.calls) = 1
    /\ bulk[poll.id].is_recurring
    /\ bulk[poll.id].send_count >= 1
    /\ lastOp.op = "send_sms"

\* C17: in a bulk run a provider failure for one recipient does not stop
\* the batch: every recipient of the list is attempted exactly once,
\* sent_count + failed_count never exceeds total_recipients, and when the
\* run ends sent_count + failed_count is the number of recipients and
\* failed_count the number of provider failures.
C17_EveryRecipientOnce ==
    [][/\ \A i \in 1..Len(bulk') :
             bulk'[i].sent_count + bulk'[i].failed_count <= bulk'[i].total_recipients
       /\ (lastOp'.op = "finish_bulk_send" /\ poll.id # 0)
             => LET list == JsonLoads(bulk[poll.id].recipient_phones).value IN
                /\ [k \in 1..Len(poll.calls) |-> poll.calls[k].phone] = list
                /\ bulk'[poll.id].sent_count + bulk'[poll.id].failed_count = Len(list)
                /\ bulk'[poll.id].failed_count
                      = Cardinality({k \in 1..Len(poll.calls) : ~poll.calls[k].success})
      ]_vars

\* C19: a recurring weekly message with a day-set and an end date, polled
\* until it stops, is executed only at occurrences that fall on the listed
\* weekdays and are not later than the end date.
C19_WeeklyRunsOnListedDays ==
    \A k \in 1..Len(bulkRuns) :
        LET row == bulk[bulkRuns[k].id] IN
        (/\ row.is_recurring
         /\ row.recurrence_type = "weekly"
         /\ ParsedDays(row.recurrence_days) # {}
         /\ row.recurrence_end_date # None)
        => /\ Weekday(bulkRuns[k].occurrence) \in ParsedDays(row.recurrence_days)
           /\ bulkRuns[k].occurrence <= row.recurrence_end_date

-----------------------------------------------------------------------------
(* Properties of the recurrence calculator, checked under SpecCalc (C18) *)

\* the times after t at which the rule anchored at the row's scheduled_at
\* has an occurrence, within the search window
C18_Candidates(row, t) ==
    {c \in (t + 1)..(t + 24 * Horizon) :
        /\ c >= row.scheduled_at
        /\ (c - row.scheduled_at) % 24 = 0
        /\ IsOccurrence(row, c)}

C18_Holds(row, t) ==
    LET result == CalculateNextOccurrence(row, t)
        end == row.recurrence_end_date
        cands == C18_Candidates(row, t)
    IN
    /\ result # None => /\ result > t
                         /\ end # None => result <= end
    /\ (end # None /\ t > end) => result = None
    /\ (end # None /\ \A c \in cands : c > end) => result = None
    /\ (row.recurrence_type = "weekly" /\ ParsedDays(row.recurrence_days) = {}
          /\ result # None)
         => Weekday(result) = Weekday(row.scheduled_at)

\* C18: for every recurrence type (daily, weekly, monthly), anchor and
\* optional end date the calculator returns a time strictly after the
\* current time and not later than the end date, or no occurrence; it
\* returns no occurrence when the end date has passed or the earliest
\* candidate lies after it; weekly without a day-set stays on the anchor's
\* weekday.
C18_NextOccurrence ==
    \A i \in 1..Len(bulk) :
        (bulk[i].is_recurring
           /\ bulk[i].recurrence_type \in {"daily", "weekly", "monthly"})
        => C18_Holds(bulk[i], now)

\* resume has just moved a weekly row without a day-set to its next
\* occurrence, which lies on the row's end date
C18_Witness ==
    /\ lastOp.op = "resume_scheduled_message"
    /\ lastOp.ok
    /\ \E i \in 1..Len(bulk) :
          /\ bulk[i].recurrence_type = "weekly"
          /\ bulk[i].recurrence_days = <<>>
          /\ bulk[i].scheduled_at > now
          /\ bulk[i].scheduled_at = bulk[i].recurrence_end_date

-----------------------------------------------------------------------------
(* Properties of response tracking, checked under Spec (C20) *)

\* C20: while a campaign is completed (by the tick or by the complete
\* action) and inside its 30-day response-tracking window, a reply that is
\* no opt-out from an enrolled phone is recorded on that phone's
\* enrollment (its response counter goes up and it counts as engaged), and
\* no Send is created.
\* Stated for campaigns that were started before they were completed.
C20_RepliesTrackedAfterCompletion ==
    [][\A raw \in InboundPhones, body \in InboundBodies, nulls_first \in BOOLEAN :
         (lastOp'.op = "record_response" /\ ~IsOptOut(body)
            /\ record_response(raw, body, nulls_first))
         => /\ Len(sends') = Len(sends)
            /\ \A e \in 1..Len(enrolls) :
                  LET camp == campaigns[enrolls[e].campaign_id] IN
                  (/\ C7_Number(enrolls[e].phone_number) = C7_Number(raw)
                   /\ enrolls[e].status # "opted_out"
                   /\ camp.exists
                   /\ camp.status = "completed"
                   /\ camp.started_at # None
                   /\ camp.response_tracking_ends_at > now)
                  => /\ enrolls'[e].response_count = enrolls[e].response_count + 1
                     /\ enrolls'[e].status = "engaged"]_vars

-----------------------------------------------------------------------------
(* Enrollment status *)

C24_Edges ==
    {<<"active", "engaged">>, <<"active", "completed">>, <<"engaged", "completed">>,
     <<"active", "opted_out">>, <<"engaged", "opted_out">>}

-----------------------------------------------------------------------------
(* Step timing *)

\* the rows a step appends to campaign_sends
C28_NewSends == {i \in (Len(sends) + 1)..Len(sends') : sends'[i].message_type = "scheduled"}

\* C28: a step that creates a scheduled Send for the message at position 1
\* finds the enrollment's current_step at 0, and a step that creates one for
\* a message at a position k >= 2 finds that the whole days between the
\* enrollment's last_message_at and the current time are at least the
\* message's days_after_previous.
C28_StepTiming ==
    [][\A i \in C28_NewSends :
          LET enr == enrolls[sends'[i].enrollment_id]
              msg == messages[sends'[i].campaign_message_id]
          IN IF msg.sequence_order = 1 THEN enr.current_step = 0
             ELSE /\ enr.last_message_at # None
                  /\ (now - enr.last_message_at) \div 24 >= msg.days_after_previous]_vars

\* A pass has just created the Send of a second step
C28_Witness ==
    /\ lastOp.op = "campaign_tick"
    /\ \E i \in 1..Len(sends) :
          /\ sends[i].message_type = "scheduled"
          /\ messages[sends[i].campaign_message_id].sequence_order = 2
          /\ sends[i].created_at = now

-----------------------------------------------------------------------------
(* Failed steps *)

\* the scheduled Sends a step appends with status failed
C30_NewFailed ==
    {i \in (Len(sends) + 1)..Len(sends') :
        sends'[i].message_type = "scheduled" /\ sends'[i].status = "failed"}

\* The first half of C30: a refused scheduled step is stored as a failed
\* Send with the error text and leaves the enrollment's current_step,
\* last_message_at, last_message_id and status as they were.
C30_FailureKeepsEnrollment ==
    [][\A i \in C30_NewFailed :
          LET e == sends'[i].enrollment_id IN
          /\ sends'[i].error_message # ""
          /\ sends'[i].sent_at = None
          /\ enrolls'[e].current_step = enrolls[e].current_step
          /\ enrolls'[e].last_message_at = enrolls[e].last_message_at
          /\ enrolls'[e].last_message_id = enrolls[e].last_message_id
          /\ enrolls'[e].status = enrolls[e].status]_vars

\* C30: when the provider refuses a scheduled step, a failed Send with the
\* error text is stored and the enrollment's current_step, last_message_at,
\* last_message_id and status stay as they were; and a step that failed is
\* attempted again only on a later day (of the campaign's US Eastern time).
C30_FailedStepRetriedLaterDay ==
    [][/\ \A i \in C30_NewFailed :
             LET e == sends'[i].enrollment_id IN
             /\ sends'[i].error_message # ""
             /\ enrolls'[e].current_step = enrolls[e].current_step
             /\ enrolls'[e].last_message_at = enrolls[e].last_message_at
             /\ enrolls'[e].last_message_id = enrolls[e].last_message_id
             /\ enrolls'[e].status = enrolls[e].status
       /\ \A i \in (Len(sends) + 1)..Len(sends'), j \in 1..Len(sends) :
             (/\ sends'[i].message_type = "scheduled"
              /\ sends[j].message_type = "scheduled"
              /\ sends[j].status = "failed"
              /\ sends[j].enrollment_id = sends'[i].enrollment_id
              /\ sends[j].campaign_message_id = sends'[i].campaign_message_id)
             => EasternDay(sends[j].created_at) < EasternDay(sends'[i].created_at)]_vars

\* The same retry rule with the day of the idempotence check, the UTC day
C30_FailedStepRetriedLaterUtcDay ==
    [][\A i \in (Len(sends) + 1)..Len(sends'), j \in 1..Len(sends) :
          (/\ sends'[i].message_type = "scheduled"
           /\ sends[j].message_type = "scheduled"
           /\ sends[j].status = "failed"
           /\ sends[j].enrollment_id = sends'[i].enrollment_id
           /\ sends[j].campaign_message_id = sends'[i].campaign_message_id)
          => sends[j].created_at \div 24 < sends'[i].created_at \div 24]_vars

-----------------------------------------------------------------------------
(* Attribution of replies *)

\* the scheduled Sends of the pair of Send i that have no response yet
C25_UnmarkedScheduled(i) ==
    {j \in ScheduledSends(sends[i].enrollment_id, sends[i].campaign_message_id) :
        ~sends[j].response_received}

\* C25: the Send that an inbound reply marks response-received belongs to
\* the enrollment's last message and, while that message has a scheduled
\* Send without a response, it is one of those and none of them that went
\* out was sent later; in particular no followup-type Send is marked while
\* an unmarked scheduled Send of the message exists.
C25_ReplyMarksScheduledSend ==
    [][\A i \in 1..Len(sends) :
          (~sends[i].response_received /\ sends'[i].response_received)
          => /\ sends[i].campaign_message_id
                  = enrolls[sends[i].enrollment_id].last_message_id
             /\ C25_UnmarkedScheduled(i) # {}
                  => /\ i \in C25_UnmarkedScheduled(i)
                     /\ \A j \in C25_UnmarkedScheduled(i) :
                           (sends[i].sent_at # None /\ sends[j].sent_at # None)
                           => sends[j].sent_at <= sends[i].sent_at]_vars

-----------------------------------------------------------------------------
(* A/B tests *)

\* the Sends of message m recorded with variant v that a reply was attributed to
C26_AttributedResponses(m, v) ==
    {i \in 1..Len(sends) : /\ sends[i].campaign_message_id = m
                           /\ sends[i].ab_variant = v
                           /\ sends[i].response_received}

\* the winner the claim describes: by the rates of the attributed responses
C26_WinnerByAttribution(row) ==
    Winner([row EXCEPT
              !.variant_a_responses =
                  Cardinality(C26_AttributedResponses(row.campaign_message_id, "A")),
              !.variant_b_responses =
                  Cardinality(C26_AttributedResponses(row.campaign_message_id, "B"))])

\* C26: for every A/B-tested message, the response counter of each variant
\* equals the number of inbound responses attributed to the message's Sends
\* of that variant, and so the reported winner is the one those responses
\* give.
C26_ResponseCounters ==
    \A i \in 1..Len(abTests) :
        LET m == abTests[i].campaign_message_id IN
        /\ abTests[i].variant_a_responses = Cardinality(C26_AttributedResponses(m, "A"))
        /\ abTests[i].variant_b_responses = Cardinality(C26_AttributedResponses(m, "B"))
        /\ Winner(abTests[i]) = C26_WinnerByAttribution(abTests[i])

\* the scheduled Sends of message m recorded as sent with variant v
C27_SentWithVariant(m, v) ==
    {i \in 1..Len(sends) : /\ sends[i].campaign_message_id = m
                           /\ sends[i].message_type = "scheduled"
                           /\ sends[i].status = "sent"
                           /\ sends[i].ab_variant = v}

\* The counters of every A/B test agree with the Sends on record
C27_CountersMatchSends ==
    \A i \in 1..Len(abTests) :
        LET m == abTests[i].campaign_message_id IN
        /\ abTests[i].variant_a_sent = Cardinality(C27_SentWithVariant(m, "A"))
        /\ abTests[i].variant_b_sent = Cardinality(C27_SentWithVariant(m, "B"))

\* Every scheduled Send a step creates carries the test's variant-B body
\* when the message is A/B-tested and the enrollment has variant B, and the
\* message's own body otherwise
C27_BodiesFollowVariant ==
    [][\A i \in (Len(sends) + 1)..Len(sends') :
          sends'[i].message_type = "scheduled"
          => LET e == sends'[i].enrollment_id
                 m == sends'[i].campaign_message_id
             IN sends'[i].message_body =
                  IF MessageABTests(m) # {} /\ enrolls[e].ab_variant = "B"
                  THEN abTests[CHOOSE t \in MessageABTests(m) : TRUE].variant_b_body
                  ELSE messages[m].message_body]_vars

\* C27: for every A/B-tested message, after any ticks and set-ups and
\* removals of A/B tests, variant_a_sent and variant_b_sent equal the number
\* of the message's scheduled Sends with status sent and variant A,
\* respectively B (failed Sends and follow-ups do not count), and a
\* scheduled Send for a variant-B enrollment carries the variant-B body
\* while the other scheduled Sends carry the message's own body.
C27_SentCounters == []C27_CountersMatchSends /\ C27_BodiesFollowVariant

-----------------------------------------------------------------------------
(* The message sequence *)

\* C22: delete_message on a message that has a recorded Send raises the
\* error and changes nothing; on a message without Sends it removes the
\* message and its A/B test and renumbers the remaining messages of the
\* campaign to exactly 1..n, keeping their previous relative order.
C22_DeleteMessage ==
    [][(lastOp'.op = "delete_message" /\ MessageExists(lastOp'.id))
       => LET m == lastOp'.id
              rest == CampaignMessageIds(messages[m].campaign_id) \ {m}
          IN IF \E i \in 1..Len(sends) : sends[i].campaign_message_id = m
             THEN /\ lastOp'.error # ""
                  /\ UNCHANGED <<campaigns, messages, enrolls, sends, abTests>>
             ELSE /\ lastOp'.error = ""
                  /\ messages'[m] = DeletedMessage
                  /\ \A i \in 1..Len(abTests') : abTests'[i].campaign_message_id # m
                  /\ \A x \in rest : messages'[x].campaign_id = messages[x].campaign_id
                  /\ {messages'[x].sequence_order : x \in rest} = 1..Cardinality(rest)
                  /\ \A x, y \in rest :
                        messages[x].sequence_order < messages[y].sequence_order
                        => messages'[x].sequence_order < messages'[y].sequence_order]_vars

\* A message was deleted while Sends of another message are on record, and
\* a message that had been added after it remains, at position 1
C22_Witness ==
    /\ lastOp.op = "delete_message"
    /\ lastOp.ok
    /\ \E x \in CampaignMessageIds(1) : x > lastOp.id /\ messages[x].sequence_order = 1
    /\ Len(sends) > 0

\* C23: whatever add_message (with or without a position), update_message,
\* reorder_messages and delete_message calls were made, the sequence
\* positions of a campaign's messages are distinct and are exactly 1..n.
C23_PositionsContiguous ==
    \A c \in CampaignIds :
        /\ \A x, y \in CampaignMessageIds(c) :
              x # y => messages[x].sequence_order # messages[y].sequence_order
        /\ {messages[x].sequence_order : x \in CampaignMessageIds(c)}
              = 1..Cardinality(CampaignMessageIds(c))

-----------------------------------------------------------------------------
(* Send times *)

\* the send time that applies to message m: its own when it has one, else
\* the campaign's default
C29_ApplicableSendTime(m) ==
    IF messages[m].send_time # "" THEN messages[m].send_time
    ELSE campaigns[messages[m].campaign_id].default_send_time

\* C29: a step creates a scheduled or follow-up Send only when the time of
\* day in US Eastern time is at or after the send time that applies to the
\* Send's message: the message's own send time when it has one, the
\* campaign's default send time otherwise.
C29_SendTimeRespected ==
    [][\A i \in (Len(sends) + 1)..Len(sends') :
          EasternHour(now) >= ParseSendTimeHour(
              C29_ApplicableSendTime(sends'[i].campaign_message_id))]_vars

\* The same with the campaign's default send time for every message
C29_DefaultSendTimeRespected ==
    [][\A i \in (Len(sends) + 1)..Len(sends') :
          EasternHour(now) >= ParseSendTimeHour(
              campaigns[sends'[i].campaign_id].default_send_time)]_vars

-----------------------------------------------------------------------------
(* Progress of a campaign *)

\* the sent scheduled Sends of enrollment e for the message at position k
C21_StepSends(e, k) ==
    {i \in 1..Len(sends) :
        /\ sends[i].enrollment_id = e
        /\ sends[i].message_type = "scheduled"
        /\ sends[i].status = "sent"
        /\ MessageExists(sends[i].campaign_message_id)
        /\ messages[sends[i].campaign_message_id].sequence_order = k}

\* The campaign of enrollment e is active, e still takes part, and the days
\* its steps need end within the evenings the model follows
C21_Running(e) ==
    /\ e \in 1..Len(enrolls)
    /\ enrolls[e].status \in {"active", "engaged"}
    /\ LET c == enrolls[e].campaign_id IN
       /\ campaigns[c].status = "active"
       /\ campaigns[c].started_at + 24 * (Cardinality(CampaignMessageIds(c)) - 1)
             <= LastEvening

\* Enrollment e received every step once and in order: step 1 in the pass
\* that followed the start, step k >= 2 on the first evening on which its
\* day of delay had passed
C21_ReceivedAllSteps(e) ==
    LET c == enrolls[e].campaign_id
        n == Cardinality(CampaignMessageIds(c))
        at(k) == sends[CHOOSE i \in C21_StepSends(e, k) : TRUE].created_at
    IN /\ \A k \in 1..n : Cardinality(C21_StepSends(e, k)) = 1
       /\ n >= 1 => at(1) = campaigns[c].started_at
       /\ \A k \in 2..n : /\ at(k) - at(k - 1) >= 24
                          /\ (at(k) - 24) - at(k - 1) < 24

\* The campaign is completed with its response-tracking window set, and e
\* has opted out or is completed after all its steps
C21_Finished(e) ==
    /\ e \in 1..Len(enrolls)
    /\ LET c == enrolls[e].campaign_id IN
       /\ campaigns[c].status = "completed"
       /\ campaigns[c].response_tracking_ends_at
             = campaigns[c].completed_at + TrackingWindow
    /\ \/ enrolls[e].status = "opted_out"
       \/ enrolls[e].status = "completed" /\ C21_ReceivedAllSteps(e)

\* C21: when the campaign passes keep running, time advances and every send
\* succeeds, an enrollment of an active campaign with messages at positions
\* 1..n that does not opt out receives the steps 1..n in order (step 1 in
\* the first pass, step k >= 2 once its day of delay has passed) and is
\* marked completed, and the campaign becomes completed with its
\* response-tracking window set.
C21_CampaignRunsToCompletion ==
    \A e \in 1..2 : C21_Running(e) ~> C21_Finished(e)

\* A campaign of two steps is completed and its enrollment, which did not
\* opt out, is completed after both steps
C21_Witness ==
    \E e \in 1..Len(enrolls) :
        /\ C21_Finished(e)
        /\ enrolls[e].status = "completed"
        /\ Cardinality(CampaignMessageIds(enrolls[e].campaign_id)) = 2

-----------------------------------------------------------------------------
(* Follow-ups *)

\* C31: in every reachable state each (enrollment, message) pair has at most
\* one followup-type Send, whether it was recorded as sent or as failed; a
\* follow-up that failed is not tried again.
C31_OneFollowupPerPair ==
    \A i, j \in 1..Len(sends) :
        (/\ sends[i].message_type = "followup"
         /\ sends[j].message_type = "followup"
         /\ sends[i].enrollment_id = sends[j].enrollment_id
         /\ sends[i].campaign_message_id = sends[j].campaign_message_id)
        => i = j

\* A follow-up pass has run over an active enrollment whose follow-up is on
\* record as failed
C31_Witness ==
    /\ lastOp.op = "followup_tick"
    /\ \E i \in 1..Len(sends) :
          /\ sends[i].message_type = "followup"
          /\ sends[i].status = "failed"
          /\ sends[i].enrollment_id \in FollowupEnrollmentIds(sends[i].campaign_id)
          /\ campaigns[sends[i].campaign_id].status = "active"

\* The follow-up of enrollment e is owed at the present time: its campaign
\* is active and due, its status is one of `statuses', its latest message
\* has follow-ups enabled, the delay has elapsed, the scheduled send of
\* that message has no response and there is no follow-up yet
C32_Owed(e, statuses) ==
    LET enr == enrolls[e]
        m == enr.last_message_id
    IN /\ FollowupPassRuns(enr.campaign_id, now)
       /\ enr.status \in statuses
       /\ m \in 1..Len(messages)
       /\ messages[m].enable_followup
       /\ enr.last_message_at # None
       /\ WholeDays(now, enr.last_message_at) >= messages[m].followup_days
       /\ ScheduledSends(e, m) # {}
       /\ \A i \in ScheduledSends(e, m) : ~sends[i].response_received
       /\ FollowupSends(e, m) = {}

C32_PassSendsOwed(statuses) ==
    lastOp'.op = "followup_tick" =>
        \A e \in 1..Len(enrolls) :
            C32_Owed(e, statuses) =>
                \E i \in 1..Len(sends') :
                    /\ sends'[i].message_type = "followup"
                    /\ sends'[i].enrollment_id = e
                    /\ sends'[i].campaign_message_id = enrolls[e].last_message_id

\* C32: a follow-up pass sends the follow-up to every enrollment it is owed
\* to, whether the enrollment is active or engaged (has replied before).
C32_EngagedReceiveFollowup == [][C32_PassSendsOwed({"active", "engaged"})]_vars

\* The same for active enrollments alone
C32_ActiveReceiveFollowup == [][C32_PassSendsOwed({"active"})]_vars

\* A follow-up pass has run and an engaged enrollment is still owed its
\* follow-up
C32_Witness ==
    /\ lastOp.op = "followup_tick"
    /\ \E e \in 1..Len(enrolls) : C32_Owed(e, {"engaged"})

\* Enrollment e is active, has not replied, and its latest message m has
\* follow-ups enabled; the clock can still reach the day the follow-up is due
C33_Awaiting(e, m) ==
    /\ e <= Len(enrolls)
    /\ enrolls[e].status = "active"
    /\ enrolls[e].response_count = 0
    /\ enrolls[e].last_message_id = m
    /\ m \in 1..Len(messages)
    /\ messages[m].enable_followup
    /\ enrolls[e].last_message_at < MaxTime

\* The follow-up of message m to enrollment e is on record, or a later
\* step was sent first, or the contact replied or opted out
C33_Settled(e, m) ==
    /\ e <= Len(enrolls)
    /\ \/ FollowupSends(e, m) # {}
       \/ enrolls[e].last_message_id # m
       \/ enrolls[e].status \in {"engaged", "opted_out"}

\* Message m is the last step of its campaign
C33_FinalStep(m) ==
    /\ m \in 1..Len(messages)
    /\ messages[m].sequence_order = MaxSequenceOrder(messages[m].campaign_id)

\* C33: an active enrollment that does not reply gets the follow-up of its
\* latest message once the delay has elapsed, unless a later step is sent
\* first; this holds for every step, the final one included.
C33_FollowupEventuallySent ==
    \A e \in 1..2, m \in 1..(MaxMessages + 1) :
        C33_Awaiting(e, m) ~> C33_Settled(e, m)

\* The same for the steps that are not the final one
C33_FollowupBeforeFinalStep ==
    \A e \in 1..2, m \in 1..(MaxMessages + 1) :
        (C33_Awaiting(e, m) /\ ~C33_FinalStep(m)) ~> C33_Settled(e, m)

\* A final step was sent, the delay of its follow-up has elapsed and no
\* follow-up is on record
C33_Witness ==
    \E e \in 1..Len(enrolls), m \in 1..Len(messages) :
        /\ enrolls[e].last_message_id = m
        /\ C33_FinalStep(m)
        /\ messages[m].enable_followup
        /\ enrolls[e].response_count = 0
        /\ WholeDays(now, enrolls[e].last_message_at) >= messages[m].followup_days
        /\ FollowupSends(e, m) = {}

\* A step that is not the final one was sent and its follow-up is on record
C33_WitnessEarlierStep ==
    \E e \in 1..Len(enrolls), m \in 1..Len(messages) :
        /\ ~C33_FinalStep(m)
        /\ FollowupSends(e, m) # {}

-----------------------------------------------------------------------------
(* Recurring bulk messages, checked under SpecBulkSteps *)

\* The step ends the run of a recurring row whose body is plain text
C34_RunEnds ==
    /\ lastOp'.op = "finish_bulk_send"
    /\ poll.id # 0
    /\ bulk[poll.id].is_recurring
    /\ ~HasVariables(bulk[poll.id].body)

\* The step is a resume of recurring row id that was paused
C34_Resumes(id) ==
    /\ lastOp'.op = "resume_scheduled_message"
    /\ id <= Len(bulk)
    /\ bulk[id].status = "paused"
    /\ bulk[id].is_recurring

\* At the end of a run the row is pending at the next occurrence with
\* send_count one higher, or completed when there is no next occurrence
C34_RunReschedules ==
    C34_RunEnds =>
        LET row == bulk[poll.id]
            after == bulk'[poll.id]
            next_occurrence == CalculateNextOccurrence(row, now)
        IN /\ after.send_count = row.send_count + 1
           /\ IF next_occurrence # None
              THEN after.status = "pending" /\ after.scheduled_at = next_occurrence
              ELSE after.status = "completed"

\* A row put back to pending at the end of a run has its counters at zero
C34_RunResetsCounters ==
    (C34_RunEnds /\ bulk'[poll.id].status = "pending") =>
        bulk'[poll.id].sent_count = 0 /\ bulk'[poll.id].failed_count = 0

\* A recurring row that becomes pending again, after a run or a resume, is
\* scheduled strictly later than the present time; a resume with no
\* occurrence left completes the row
C34_PendingLater ==
    /\ (C34_RunEnds /\ bulk'[poll.id].status = "pending") =>
           bulk'[poll.id].scheduled_at > now
    /\ \A id \in 1..Len(bulk) :
           C34_Resumes(id) =>
               IF CalculateNextOccurrence(bulk[id], now) # None
               THEN /\ bulk'[id].status = "pending"
                    /\ bulk'[id].scheduled_at > now
               ELSE bulk'[id].status = "completed"

\* C34: when a recurring bulk message finishes a run and a next occurrence
\* exists the row is pending again with sent and failed counters reset,
\* send_count one higher and scheduled_at at that occurrence; a recurring
\* row that becomes pending again is scheduled strictly later than now;
\* with no occurrence left it is completed.
C34_RecurringRescheduled ==
    [][C34_RunReschedules /\ C34_RunResetsCounters /\ C34_PendingLater]_vars

\* The claim without the reset of the counters
C34_RecurringRescheduledKeepingCounters ==
    [][C34_RunReschedules /\ C34_PendingLater]_vars

\* A run of a recurring row has ended with the row pending again
C34_Witness ==
    /\ lastOp.op = "finish_bulk_send"
    /\ \E id \in 1..Len(bulk) :
          /\ bulk[id].is_recurring
          /\ bulk[id].status = "pending"
          /\ bulk[id].send_count = 1
          /\ bulk[id].scheduled_at > now

-----------------------------------------------------------------------------
(* The frame of an inbound message, checked under SpecReplies *)

\* Enrollment e is one an inbound message from `phone' applies to: it is an
\* enrollment of that phone, active or engaged, in a campaign that is
\* active, paused, or completed with its tracking window still open
C35_Applies(e, phone) ==
    LET camp == campaigns[enrolls[e].campaign_id] IN
    /\ enrolls[e].phone_number = phone
    /\ enrolls[e].status \in {"active", "engaged"}
    /\ camp.status \in {"active", "paused", "completed"}
    /\ camp.status = "completed" => camp.response_tracking_ends_at > now

C35_FrameFor(phone) ==
    /\ Len(enrolls') = Len(enrolls)
    /\ \A e \in 1..Len(enrolls) :
          IF C35_Applies(e, phone) THEN enrolls'[e] # enrolls[e]
          ELSE enrolls'[e] = enrolls[e]
    /\ \A c \in CampaignIds : campaigns'[c] = campaigns[c]

\* C35: processing one inbound message changes exactly the enrollments of
\* the sender's normalized phone that are active or engaged in a campaign
\* that is active, paused, or completed within its tracking window; every
\* other enrollment and every campaign is left as it was.
C35_InboundFrame ==
    [][lastOp'.op = "record_response" =>
          \E raw \in InboundPhones : C35_FrameFor(normalize_phone(raw))]_vars

\* An inbound message was processed that opted one phone out while an
\* enrollment of another phone in the same campaign is still active
C35_Witness ==
    /\ lastOp.op = "record_response"
    /\ \E e1, e2 \in 1..Len(enrolls) :
          /\ enrolls[e1].campaign_id = enrolls[e2].campaign_id
          /\ enrolls[e1].phone_number # enrolls[e2].phone_number
          /\ enrolls[e1].status = "opted_out"
          /\ enrolls[e2].status = "active"

\* An inbound message was processed while an engaged enrollment sits in a
\* completed campaign whose tracking window has ended
C35_WitnessPastWindow ==
    /\ lastOp.op = "record_response"
    /\ \E e \in 1..Len(enrolls) :
          /\ enrolls[e].status = "engaged"
          /\ campaigns[enrolls[e].campaign_id].status = "completed"
          /\ campaigns[enrolls[e].campaign_id].response_tracking_ends_at <= now

\* An inbound message was processed while an active enrollment sits in a
\* draft campaign
C35_WitnessDraft ==
    /\ lastOp.op = "record_response"
    /\ \E e \in 1..Len(enrolls) :
          /\ enrolls[e].status = "active"
          /\ campaigns[enrolls[e].campaign_id].status = "draft"

-----------------------------------------------------------------------------
(* Steps sent once, checked under SpecEdits *)

\* the scheduled sends of message m to enrollment e that were transmitted
C39_SentScheduled(e, m) ==
    {i \in ScheduledSends(e, m) : sends[i].status = "sent"}

\* C39: every (enrollment, message) pair has at most one scheduled-type
\* Send with status sent, also when messages are reordered, moved to
\* another position, added or deleted while the campaign is active or
\* paused.
C39_StepSentOnce ==
    \A e \in 1..Len(enrolls), m \in 1..Len(messages) :
        Cardinality(C39_SentScheduled(e, m)) <= 1

\* A message was transmitted to an enrollment and the sequence was
\* reordered afterwards
C39_Witness ==
    /\ lastOp.op = "reorder_messages"
    /\ \E e \in 1..Len(enrolls), m \in 1..Len(messages) :
          C39_SentScheduled(e, m) # {}

-----------------------------------------------------------------------------
(* Overlapping calls of enroll_contacts, checked under SpecEnrollCalls *)

\* C37: also when calls of enroll_contacts for the same campaign and phone
\* overlap, the campaign has at most one enrollment row per phone.
C37_OneRowPerPhone ==
    \A e1, e2 \in 1..Len(enrolls) :
        (/\ enrolls[e1].campaign_id = enrolls[e2].campaign_id
         /\ enrolls[e1].phone_number = enrolls[e2].phone_number)
        => e1 = e2

\* Two calls that hold a row for the same campaign and phone are in flight
C37_Witness ==
    \E k1, k2 \in 1..Len(inflight) :
        /\ k1 < k2
        /\ inflight[k1].op = "enroll_contacts"
        /\ inflight[k2].op = "enroll_contacts"
        /\ \E r1 \in 1..Len(inflight[k1].rows), r2 \in 1..Len(inflight[k2].rows) :
              /\ inflight[k1].rows[r1].campaign_id = inflight[k2].rows[r2].campaign_id
              /\ inflight[k1].rows[r1].phone_number = inflight[k2].rows[r2].phone_number

-----------------------------------------------------------------------------
(* Cancel and pause next to a running poll, checked under SpecBulkCalls *)

\* The step is a step of the poll
C38_PollStep ==
    lastOp'.op \in {"read_bulk_row", "begin_bulk_send", "send_sms", "finish_bulk_send"}

\* A row that a successful cancel or pause has stopped is left alone by the
\* poll: no step of the poll writes its status to in_progress, completed or
\* pending, or sends to one of its recipients
C38_PollKeepsStopped ==
    \A id \in 1..Len(bulk) :
        (bulk[id].status \in {"cancelled", "paused"} /\ C38_PollStep) =>
            /\ bulk'[id].status \notin {"in_progress", "completed", "pending"}
            /\ ~(lastOp'.op = "send_sms" /\ poll.id = id)

\* C38: once cancel_scheduled_message or pause_scheduled_message has
\* returned True, the running poll sends to no recipient of the message and
\* does not write its status back to in_progress, completed or pending,
\* however the call and the poll interleave.
C38_StoppedStaysStopped == [][C38_PollKeepsStopped]_vars

\* The poll has read a due row and a cancel of that row has succeeded
\* before the poll's commit
C38_Witness ==
    /\ lastOp.op = "cancel_scheduled_message"
    /\ lastOp.ok
    /\ \E k \in 1..Len(inflight) :
          /\ inflight[k].op = "execute_bulk_send"
          /\ bulk[inflight[k].id].status = "cancelled"

-----------------------------------------------------------------------------
(* The campaign pass next to the webhook and a pass that stops, checked
   under SpecPassSteps *)

\* An enrollment that has opted out stays opted out
C36_OptOutKept ==
    \A e \in 1..Len(enrolls) :
        enrolls[e].status = "opted_out" => enrolls'[e].status = "opted_out"

\* No Send is transmitted to an enrollment whose opt-out is committed
C36_NoSendAfterOptOut ==
    \A i \in (Len(sends) + 1)..Len(sends') :
        sends'[i].status = "sent" =>
            enrolls[sends'[i].enrollment_id].status # "opted_out"

\* C36: when the webhook processes an opt-out while a pass that has loaded
\* the enrollment is still running, the enrollment's status stays opted_out
\* (the later write of the pass does not overwrite it) and no Send is
\* transmitted to the enrollment after the opt-out was committed.
C36_OptOutRespected == [][C36_OptOutKept /\ C36_NoSendAfterOptOut]_vars

\* The two halves of the claim alone
C36_OptOutStatusKept == [][C36_OptOutKept]_vars

C36_OptOutStopsSends == [][C36_NoSendAfterOptOut]_vars

\* The webhook has committed an opt-out of an enrollment that a pass in
\* flight has loaded and not yet dealt with
C36_Witness ==
    /\ lastOp.op = "record_response"
    /\ \E k \in 1..Len(inflight) :
          /\ inflight[k].op = "campaign_tick"
          /\ inflight[k].next <= Len(inflight[k].ids)
          /\ enrolls[inflight[k].ids[inflight[k].next]].status = "opted_out"

\* A pass that ends without its commit leaves enrollments and campaigns as
\* they were committed
C40_StopKeepsCommitted ==
    (lastOp'.op = "campaign_tick" /\ ~lastOp'.ok) =>
        enrolls' = enrolls /\ campaigns' = campaigns

\* A step that was transmitted to an enrollment is not transmitted to it
\* again
C40_NoSecondTransmission ==
    \A i \in (Len(sends) + 1)..Len(sends') :
        (sends'[i].message_type = "scheduled" /\ sends'[i].status = "sent") =>
            \A j \in 1..Len(sends) :
                ~(/\ sends[j].message_type = "scheduled"
                  /\ sends[j].status = "sent"
                  /\ sends[j].enrollment_id = sends'[i].enrollment_id
                  /\ sends[j].campaign_message_id = sends'[i].campaign_message_id)

\* C40: when a pass stops after a step's Send was committed as sent and
\* before the enrollment's progress is committed, the enrollment is left
\* in its last committed state and later passes do not transmit that step
\* to that enrollment a second time.
C40_StoppedPassNotRepeated ==
    [][C40_StopKeepsCommitted /\ C40_NoSecondTransmission]_vars

\* The first half of the claim alone
C40_StoppedPassKeepsCommitted == [][C40_StopKeepsCommitted]_vars

\* A pass has stopped after the Send of a step was committed as sent, and
\* the enrollment is still on the step before
C40_Witness ==
    /\ lastOp.op = "campaign_tick"
    /\ ~lastOp.ok
    /\ \E i \in 1..Len(sends) :
          /\ sends[i].message_type = "scheduled"
          /\ sends[i].status = "sent"
          /\ enrolls[sends[i].enrollment_id].current_step
                < messages[sends[i].campaign_message_id].sequence_order

====
